---- MODULE Spec2Model ----
(***************************************************************************)
(* A model of llarp::service::Endpoint and Endpoint::OutboundContext       *)
(* (src/llarp/service/endpoint.cpp): introset publishing, the pending      *)
(* lookup tables, remote sessions and the conversation-tag session cache.  *)
(*                                                                         *)
(* Every handler of the endpoint runs to completion on the logic thread,   *)
(* so each one is a single action.  A handler is written as a function on  *)
(* a record holding the endpoint's fields (operators taking s and giving   *)
(* the record after the call), which lets a handler be the composition of  *)
(* the calls it makes, in the order the code makes them.                   *)
(*                                                                         *)
(* Times are in model units, not milliseconds: the intervals keep their    *)
(* order (retry interval < publish interval), not their magnitude.         *)
(***************************************************************************)
EXTENDS Integers, Sequences, FiniteSets, TLC

VARIABLES
    now,                     \* llarp_time_now_ms()
    m_CurrentPublishTX,      \* txid of the publish in flight, 0 if none
    m_LastPublish,           \* time of the last confirmed publish
    m_LastPublishAttempt,    \* time of the last publish that was sent
    m_IntroSet,              \* the endpoint's own introset
    m_Paths,                 \* the endpoint's PathSet
    m_PendingLookups,        \* txid -> IServiceLookup
    m_PendingRouters,        \* router -> RouterLookupJob
    m_PendingServiceLookups, \* address -> PathEnsureHook
    m_RemoteSessions,        \* address -> OutboundContext
    m_PrefetchAddrs,         \* addresses to keep a path to
    m_PrefetchTags,          \* tags to keep resolving
    m_PrefetchedTags,        \* tag -> CachedTagResult
    m_Sessions,              \* ConvoTag -> Session
    nodedb,                  \* routers whose contact is known locally
    m_Worker,                \* jobs queued on the worker thread pool
    m_Keyfile,               \* the file the identity is kept in, "" if none
    m_Identity,              \* how the identity keys came about
    m_OnInit,                \* deferred initializers, run by Start
    hung,                    \* a handler entered a loop it never leaves
    seqReturned,             \* observation: what GetSeqNoForConvo returned, per tag
    ev                       \* observation: what the last handler did

vars == << now, m_CurrentPublishTX, m_LastPublish, m_LastPublishAttempt,
           m_IntroSet, m_Paths, m_PendingLookups, m_PendingRouters,
           m_PendingServiceLookups, m_RemoteSessions, m_PrefetchAddrs,
           m_PrefetchTags, m_PrefetchedTags, m_Sessions, nodedb, m_Worker,
           m_Keyfile, m_Identity, m_OnInit, hung, seqReturned, ev >>

-----------------------------------------------------------------------------
(* Bounds of the model *)

\* the clock runs from Clock0 to MaxTime
MaxTime == 5
\* transaction ids are drawn from 0 .. MaxTx (llarp_randint may give 0)
MaxTx == 2
\* at most this many lookups are pending at once
MaxPending == 2
\* a GotIntroMessage carries at most this many introsets
MaxMsgLen == 2
\* GetSeqNoForConvo is called at most this often per tag
MaxSeq == 3
\* at most this many handshake jobs are queued on the worker pool
MaxJobs == 2
\* at most this many deferred initializers are queued
MaxInit == 3

-----------------------------------------------------------------------------
(* Program constants *)

\* number of paths the endpoint and each context maintain
NumPaths == 2
\* scaled: about one minute
INTROSET_PUBLISH_RETRY_INTERVAL == 2
\* scaled: about thirty minutes
INTROSET_PUBLISH_INTERVAL == 3
\* scaled lifetime of a path, which is the validity of its introduction
PATH_LIFETIME == 2
\* scaled deadline of a pending lookup and of a pending router lookup
LOOKUP_TIMEOUT == 2
\* stands for 2^64: llarp_time_t and the txids are unsigned 64 bit
UMod == 1048576

\* the clock at construction: wall-clock time is far from 0, so that
\* now - 0 is at least every interval
Clock0 == INTROSET_PUBLISH_INTERVAL

TxIds == 0 .. MaxTx
Times == 0 .. MaxTime
PathIds == 1 .. NumPaths

\* unsigned subtraction (a - b on uint64_t)
USub(a, b) == ((a - b) + UMod) % UMod

-----------------------------------------------------------------------------
(* Identities, addresses, routers, introductions, introsets *)

Self == "self"
ServiceInfos == {"self", "s1", "s2"}

\* ServiceInfo::Addr(): the address is a hash of the public key
Addr(si) == CASE si = "self" -> "addr_self"
              [] si = "s1"   -> "addr_1"
              [] si = "s2"   -> "addr_2"

Addrs == {Addr(si) : si \in ServiceInfos}
RemoteAddrs == {Addr("s1"), Addr("s2")}

ZeroRouter == "r0"
Routers == {"r1", "r2"}

\* Introduction::Clear()
ClearIntro == [router |-> ZeroRouter, pathID |-> 0, expiresAt |-> 0]

\* the introductions remote services advertise
RemoteIntros ==
    { [router |-> "r1", pathID |-> 1, expiresAt |-> Clock0 + 1],
      [router |-> "r2", pathID |-> 2, expiresAt |-> Clock0 + 2] }

\* IntroSet::HasExpiredIntros(now): some introduction is expired
HasExpiredIntros(iset, t) ==
    \E k \in 1 .. Len(iset.I) : t >= iset.I[k].expiresAt

\* IntroSet::VerifySignature: sig records whether the signature verifies
VerifySignature(iset) == iset.sig

\* IntroSet::IsNewerThan
IsNewerThan(a, b) == a.T > b.T

\* the (unsigned) own introset at construction
EmptyIntroSet == [A |-> Self, I |-> << >>, T |-> 0, sig |-> FALSE]

\* the introsets the network may deliver in a GotIntroMessage, in the order
\* of std::set< IntroSet >
IntroSetOrder ==
    << [A |-> Self, I |-> << >>, T |-> 0, sig |-> TRUE],
      [A |-> Self, I |-> << >>, T |-> 0, sig |-> FALSE],
      [A |-> "s1", I |-> << [router |-> "r1", pathID |-> 1, expiresAt |-> Clock0 + 1] >>,
       T |-> 1, sig |-> TRUE],
      [A |-> "s1", I |-> << [router |-> "r2", pathID |-> 2, expiresAt |-> Clock0 + 2] >>,
       T |-> 2, sig |-> TRUE],
      [A |-> "s1", I |-> << [router |-> "r1", pathID |-> 1, expiresAt |-> Clock0 + 1] >>,
       T |-> 2, sig |-> FALSE],
      [A |-> "s2", I |-> << [router |-> "r2", pathID |-> 2, expiresAt |-> Clock0 + 2],
                            [router |-> "r1", pathID |-> 1, expiresAt |-> Clock0 + 1] >>,
       T |-> 1, sig |-> TRUE] >>

MsgIntroSets == { IntroSetOrder[k] : k \in 1 .. Len(IntroSetOrder) }

\* GotIntroMessage: T is the txid, I the introsets in message order
MessagesOf(txids, introsets) ==
    { [T |-> t, I |-> i] :
        t \in txids,
        i \in UNION { [1 .. n -> introsets] : n \in 0 .. MaxMsgLen } }

\* the introsets in the answers to a publish: the endpoint's own introset with
\* a good and with a bad signature, and a well signed one of another service
PublishIntroSets == {IntroSetOrder[1], IntroSetOrder[2], IntroSetOrder[3]}

\* the elements of a sequence
Range(q) == { q[k] : k \in 1 .. Len(q) }

\* a finite set of integers in ascending order
RECURSIVE SortedSeq(_)
SortedSeq(S) ==
    IF S = {} THEN << >>
    ELSE LET m == CHOOSE x \in S : \A y \in S : x <= y
         IN  << m >> \o SortedSeq(S \ {m})

\* f with key k mapped to v (std::map operator[] / insert of a new key)
Put(f, k, v) == [x \in (DOMAIN f) \cup {k} |-> IF x = k THEN v ELSE f[x]]

\* f without key k (std::map::erase)
Erase(f, k) == [x \in (DOMAIN f) \ {k} |-> f[x]]

EmptyMap == [x \in {} |-> 0]

-----------------------------------------------------------------------------
(* The record of what a handler did *)

NewEv(op) ==
    [ op       |-> op,
      ret      |-> TRUE,
      msg      |-> 0,       \* the arguments of the handler
      pubSent  |-> << >>,   \* txids of the PublishIntroMessages sent
      pubTried |-> 0,       \* calls of PublishIntroSet
      handled  |-> << >>,   \* IServiceLookup::HandleResponse calls
      hooks    |-> << >>,   \* PathEnsureHook calls
      sent     |-> << >>,   \* lookup requests handed to a path
      rebuilds |-> << >> ]  \* ManualRebuild calls

\* the endpoint's fields as a record
State ==
    [ now                     |-> now,
      m_CurrentPublishTX      |-> m_CurrentPublishTX,
      m_LastPublish           |-> m_LastPublish,
      m_LastPublishAttempt    |-> m_LastPublishAttempt,
      m_IntroSet              |-> m_IntroSet,
      m_Paths                 |-> m_Paths,
      m_PendingLookups        |-> m_PendingLookups,
      m_PendingRouters        |-> m_PendingRouters,
      m_PendingServiceLookups |-> m_PendingServiceLookups,
      m_RemoteSessions        |-> m_RemoteSessions,
      m_PrefetchAddrs         |-> m_PrefetchAddrs,
      m_PrefetchTags          |-> m_PrefetchTags,
      m_PrefetchedTags        |-> m_PrefetchedTags,
      m_Sessions              |-> m_Sessions,
      nodedb                  |-> nodedb,
      m_Worker                |-> m_Worker,
      m_Keyfile               |-> m_Keyfile,
      m_Identity              |-> m_Identity,
      m_OnInit                |-> m_OnInit,
      hung                    |-> hung,
      seqReturned             |-> seqReturned,
      ev                      |-> ev ]

\* the state at the entry of handler op
Enter(op) == [State EXCEPT !.ev = NewEv(op)]

\* the handler leaves the endpoint in state s
Becomes(s) ==
    /\ now' = s.now
    /\ m_CurrentPublishTX' = s.m_CurrentPublishTX
    /\ m_LastPublish' = s.m_LastPublish
    /\ m_LastPublishAttempt' = s.m_LastPublishAttempt
    /\ m_IntroSet' = s.m_IntroSet
    /\ m_Paths' = s.m_Paths
    /\ m_PendingLookups' = s.m_PendingLookups
    /\ m_PendingRouters' = s.m_PendingRouters
    /\ m_PendingServiceLookups' = s.m_PendingServiceLookups
    /\ m_RemoteSessions' = s.m_RemoteSessions
    /\ m_PrefetchAddrs' = s.m_PrefetchAddrs
    /\ m_PrefetchTags' = s.m_PrefetchTags
    /\ m_PrefetchedTags' = s.m_PrefetchedTags
    /\ m_Sessions' = s.m_Sessions
    /\ nodedb' = s.nodedb
    /\ m_Worker' = s.m_Worker
    /\ m_Keyfile' = s.m_Keyfile
    /\ m_Identity' = s.m_Identity
    /\ m_OnInit' = s.m_OnInit
    /\ hung' = s.hung
    /\ seqReturned' = s.seqReturned
    /\ ev' = s.ev

Ret(s, v) == [s EXCEPT !.ev.ret = v]

-----------------------------------------------------------------------------
(* PathSet (the path builder base of Endpoint) *)

NoPath == [status |-> "none", expiresAt |-> 0]

\* PathSet::NumInStatus
NumInStatus(paths, st) == Cardinality({p \in DOMAIN paths : paths[p].status = st})

\* PathSet::ShouldBuildMore
ShouldBuildMore(paths) ==
    NumInStatus(paths, "established") + NumInStatus(paths, "building") < NumPaths

\* the router at the far end of the path in slot p
PathRouter(p) == IF p = 1 THEN "r1" ELSE "r2"

\* PathSet::GetCurrentIntroductions: one introduction per established path,
\* as the std::set the caller copies into m_IntroSet.I
GetCurrentIntroductions(paths) ==
    LET est == SortedSeq({p \in DOMAIN paths : paths[p].status = "established"})
    IN  [k \in 1 .. Len(est) |->
            [router |-> PathRouter(est[k]), pathID |-> est[k],
             expiresAt |-> paths[est[k]].expiresAt]]

\* GetEstablishedPathClosestTo / PickRandomEstablishedPath give a path
\* exactly when one is established
HasEstablishedPath(paths) == NumInStatus(paths, "established") > 0

\* llarp_pathbuilder_context::ManualRebuild(n): n build requests
RECURSIVE ManualRebuild(_, _)
ManualRebuild(paths, n) ==
    LET free == {p \in DOMAIN paths : paths[p].status = "none"}
    IN  IF n = 0 \/ free = {} THEN paths
        ELSE LET p == CHOOSE x \in free : \A y \in free : x <= y
             IN  ManualRebuild([paths EXCEPT ![p] = [status |-> "building", expiresAt |-> 0]],
                               n - 1)

-----------------------------------------------------------------------------
(* Transaction ids and the pending lookup table *)

\* the loop of GenTXID: ++txid while txid is a key of m_PendingLookups (the
\* loop is cut after n steps; the handlers are only taken while a txid is free)
RECURSIVE NextFreeTXID(_, _, _)
NextFreeTXID(pending, txid, n) ==
    IF txid \in DOMAIN pending /\ n > 0
    THEN NextFreeTXID(pending, (txid + 1) % (MaxTx + 1), n - 1)
    ELSE txid

\* a variant of GenTXID that returns the value drawn as it is
GenTXIDBlind(s, r) == r

\* Endpoint::GenTXID, r being the value llarp_randint() gives
GenTXID(s, r) == NextFreeTXID(s.m_PendingLookups, r, MaxTx + 1)

\* IServiceLookup::IsTimedOut
IsTimedOut(lookup, t) == USub(t, lookup.created) >= LOOKUP_TIMEOUT

\* RouterLookupJob::IsExpired
IsExpired(job, t) == USub(t, job.started) >= LOOKUP_TIMEOUT

\* Endpoint::PutLookup: std::unordered_map::insert keeps an existing entry
PutLookup(s, lookup, txid) ==
    IF txid \in DOMAIN s.m_PendingLookups THEN s
    ELSE [s EXCEPT !.m_PendingLookups = Put(@, txid, lookup)]

\* the IServiceLookup constructor: the lookup registers itself with its parent
NewLookup(s, name, handler, target, txid) ==
    PutLookup(s, [name |-> name, handler |-> handler, remote |-> target,
                  txid |-> txid, created |-> s.now], txid)

\* IServiceLookup::SendRequestViaPath: sendOk is what SendRoutingMessage returns
SendRequestViaPath(s, txid, target, sendOk) ==
    IF sendOk THEN [s EXCEPT !.ev.sent = Append(@, [txid |-> txid, remote |-> target])]
    ELSE s

-----------------------------------------------------------------------------
(* Publishing the endpoint's introset *)

\* a variant of ShouldPublishDescriptors that does not look at the txid of the
\* publish in flight
ShouldPublishDescriptorsAnyway(s, t) ==
    IF HasExpiredIntros(s.m_IntroSet, t)
    THEN USub(t, s.m_LastPublishAttempt) >= INTROSET_PUBLISH_RETRY_INTERVAL
    ELSE USub(t, s.m_LastPublish) >= INTROSET_PUBLISH_INTERVAL

\* Endpoint::ShouldPublishDescriptors
ShouldPublishDescriptors(s, t) ==
    IF HasExpiredIntros(s.m_IntroSet, t)
    THEN /\ s.m_CurrentPublishTX = 0
         /\ USub(t, s.m_LastPublishAttempt) >= INTROSET_PUBLISH_RETRY_INTERVAL
    ELSE /\ s.m_CurrentPublishTX = 0
         /\ USub(t, s.m_LastPublish) >= INTROSET_PUBLISH_INTERVAL

\* Endpoint::PublishIntroSet, ptx being the value llarp_randint() gives
PublishIntroSet(s, ptx, sendOk) ==
    LET s0 == [s EXCEPT !.ev.pubTried = @ + 1]
    IN  IF HasEstablishedPath(s0.m_Paths)
        THEN LET s1 == [s0 EXCEPT !.m_CurrentPublishTX = ptx]
             IN  IF sendOk
                 THEN [s1 EXCEPT !.m_LastPublishAttempt = s1.now,
                                 !.ev.pubSent = Append(@, ptx)]
                 ELSE s1
        ELSE s0

\* a variant of IntroSetPublishFail that also records the attempt
IntroSetPublishFailRecords(s) ==
    [s EXCEPT !.m_CurrentPublishTX = 0, !.m_LastPublishAttempt = s.now]

\* Endpoint::IntroSetPublishFail
IntroSetPublishFail(s) == [s EXCEPT !.m_CurrentPublishTX = 0]

\* a variant of IntroSetPublished that does not record the time of the publish
IntroSetPublishedForgets(s) == [s EXCEPT !.m_CurrentPublishTX = 0]

\* Endpoint::IntroSetPublished
IntroSetPublished(s) ==
    [s EXCEPT !.m_CurrentPublishTX = 0, !.m_LastPublish = s.now]

\* Identity::SignIntroSet, when it succeeds
SignIntroSet(iset) == [iset EXCEPT !.sig = TRUE]

-----------------------------------------------------------------------------
(* Router lookups *)

\* Endpoint::EnsureRouterIsKnown
EnsureRouterIsKnown(s, router, sendOk) ==
    IF router = ZeroRouter THEN s
    ELSE IF router \in s.nodedb THEN s
    ELSE IF router \in DOMAIN s.m_PendingRouters THEN s
    ELSE IF HasEstablishedPath(s.m_Paths) /\ sendOk
         THEN [s EXCEPT !.m_PendingRouters = Put(@, router, [started |-> s.now])]
         ELSE s

-----------------------------------------------------------------------------
(* OutboundContext *)

\* a context is named by the key it is stored under in m_RemoteSessions;
\* a null context pointer is NullCtx
NullCtx == "null"

\* llarp_pathbuilder_context::ManualRebuild of a context's own builder
CtxManualRebuild(s, addr, n) ==
    [s EXCEPT !.ev.rebuilds = Append(@, [ctx |-> addr, n |-> n])]

\* the loop of OutboundContext::ShiftIntroduction, at the k-th introduction
RECURSIVE ShiftLoop(_, _, _, _)
ShiftLoop(s, addr, k, sendOk) ==
    LET ctx == s.m_RemoteSessions[addr]
    IN  IF k > Len(ctx.currentIntroSet.I) THEN s
        ELSE LET s1 == EnsureRouterIsKnown(s, ctx.selectedIntro.router, sendOk)
                 intro == ctx.currentIntroSet.I[k]
                 s2 == IF intro.expiresAt > ctx.selectedIntro.expiresAt
                       THEN [s1 EXCEPT !.m_RemoteSessions[addr].selectedIntro = intro]
                       ELSE s1
             IN  ShiftLoop(s2, addr, k + 1, sendOk)

\* OutboundContext::ShiftIntroduction
ShiftIntroduction(s, addr, sendOk) ==
    CtxManualRebuild(ShiftLoop(s, addr, 1, sendOk), addr, 2)

\* OutboundContext::OutboundContext, the context being stored under addr
NewOutboundContext(s, addr, introset, sendOk) ==
    LET ctx == [ currentIntroSet |-> introset,
                 selectedIntro   |-> ClearIntro,
                 sequenceNo      |-> 0,
                 sharedKey       |-> "zero",
                 paths           |-> {} ]
    IN  ShiftIntroduction([s EXCEPT !.m_RemoteSessions = Put(@, addr, ctx)],
                          addr, sendOk)

\* a variant of OnIntroSetUpdate that takes whatever introset it is given
OnIntroSetUpdateAlways(s, addr, i) ==
    [s EXCEPT !.m_RemoteSessions[addr].currentIntroSet = i]

\* OutboundContext::OnIntroSetUpdate with a non-null introset
OnIntroSetUpdate(s, addr, i) ==
    IF IsNewerThan(i, s.m_RemoteSessions[addr].currentIntroSet)
    THEN [s EXCEPT !.m_RemoteSessions[addr].currentIntroSet = i]
    ELSE s

\* OutboundContext::UpdateIntroSet
UpdateIntroSet(s, addr, r, sendOk) ==
    LET remote == Addr(s.m_RemoteSessions[addr].currentIntroSet.A)
    IN  IF HasEstablishedPath(s.m_Paths)
        THEN LET txid == GenTXID(s, r)
                 s1 == NewLookup(s, "HSLookup",
                                 [fn |-> "OnIntroSetUpdate", ctx |-> addr],
                                 remote, txid)
             IN  SendRequestViaPath(s1, txid, remote, sendOk)
        ELSE s

\* a variant of the condition of OutboundContext::Tick that always holds
TickShouldUpdateAlways(intro, t) == TRUE

\* the condition of OutboundContext::Tick, on unsigned 64 bit times
INTRO_EXPIRY_WINDOW == 1

TickShouldUpdate(intro, t) ==
    \/ intro.expiresAt >= t
    \/ USub(intro.expiresAt, t) < INTRO_EXPIRY_WINDOW

\* OutboundContext::Tick: the state it leaves
OutboundContextTick(s, addr, t, r, sendOk) ==
    LET sel == s.m_RemoteSessions[addr].selectedIntro
        s1 == IF TickShouldUpdate(sel, t) THEN UpdateIntroSet(s, addr, r, sendOk)
              ELSE s
    IN  EnsureRouterIsKnown(s1, s1.m_RemoteSessions[addr].selectedIntro.router, sendOk)

\* what OutboundContext::Tick returns: whether the context is to be dropped
OutboundContextTickResult(s, addr, t) == FALSE

\* Endpoint::GetConvoTagsForService never advances its iterator: it returns
\* (false) only on an empty session cache
GetConvoTagsForServiceReturns(s) == DOMAIN s.m_Sessions = {}

\* OutboundContext::EncryptAndSendTo
EncryptAndSendTo(s, addr) ==
    IF GetConvoTagsForServiceReturns(s) THEN s
    ELSE [s EXCEPT !.hung = TRUE]

\* OutboundContext::AsyncGenIntro: queues AsyncIntroGen::Work on the worker
\* pool.  A job is at stage "work" until Work has run, then, queued on the
\* logic thread, at stage "result"; tag and key are what Work has made.
AsyncGenIntro(s, addr) ==
    LET ctx == s.m_RemoteSessions[addr]
    IN  [s EXCEPT !.m_Worker = Append(@, [ctx    |-> addr,
                                          remote |-> ctx.currentIntroSet.A,
                                          intro  |-> ctx.selectedIntro,
                                          stage  |-> "work",
                                          tag    |-> "none",
                                          key    |-> "zero",
                                          kem    |-> TRUE,
                                          dh     |-> TRUE])]

\* which way OutboundContext::AsyncEncryptAndSendTo goes
AsyncEncryptAndSendToWent(s, addr) ==
    LET ctx == s.m_RemoteSessions[addr]
    IN  IF ctx.selectedIntro.router \notin ctx.paths THEN "no path"
        ELSE IF ctx.sequenceNo # 0 THEN "EncryptAndSendTo"
        ELSE "AsyncGenIntro"

\* OutboundContext::AsyncEncryptAndSendTo
AsyncEncryptAndSendTo(s, addr) ==
    LET ctx == s.m_RemoteSessions[addr]
    IN  IF ctx.selectedIntro.router \notin ctx.paths THEN s
        ELSE IF ctx.sequenceNo # 0 THEN EncryptAndSendTo(s, addr)
        ELSE AsyncGenIntro(s, addr)

\* the age beyond which OutboundContext::Send takes the selected introduction
\* for stale (1000 ms of the code, below the resolution of the model's clock)
INTRO_STALE_AGE == 0

\* the condition under which OutboundContext::Send shifts the introduction,
\* on unsigned 64 bit times
SendShouldShift(intro, t) ==
    \/ intro.expiresAt <= t
    \/ USub(t, intro.expiresAt) > INTRO_STALE_AGE

\* OutboundContext::Send: whether the frame is handed to a path
SendFrames(s, addr, r, sendOk) ==
    LET ctx == s.m_RemoteSessions[addr]
    IN  ctx.selectedIntro.router \in ctx.paths

\* OutboundContext::Send: the state it leaves
Send(s, addr, r, sendOk) ==
    LET s1 == IF HasExpiredIntros(s.m_RemoteSessions[addr].currentIntroSet, s.now)
              THEN UpdateIntroSet(s, addr, r, sendOk)
              ELSE s
    IN  IF SendShouldShift(s1.m_RemoteSessions[addr].selectedIntro, s1.now)
        THEN ShiftIntroduction(s1, addr, sendOk)
        ELSE s1

\* the sequence q without its j-th element
Without(q, j) == SubSeq(q, 1, j - 1) \o SubSeq(q, j + 1, Len(q))

\* the sharedKey buffer of a context while it is written by more than one
\* thread at a time
TornKey == "torn"

\* AsyncIntroGen::Work, run by a worker thread on the j-th job: it derives the
\* session key (key) into the sharedKey buffer of the context, which holds buf
\* afterwards, draws a tag, and queues Result on the logic thread when the
\* frame got encrypted and signed.  The outcome of pqe_encrypt is not looked
\* at and a failed KeyExchange is logged only: kemOk and dhOk are kept with
\* the job for the record and decide nothing.
AsyncIntroGenWork(s, j, tag, key, buf, kemOk, dhOk, encOk) ==
    LET job == s.m_Worker[j]
        s1 == [s EXCEPT !.m_RemoteSessions[job.ctx].sharedKey = buf]
    IN  IF encOk
        THEN [s1 EXCEPT !.m_Worker[j] =
                 [job EXCEPT !.stage = "result", !.tag = tag, !.key = key,
                             !.kem = kemOk, !.dh = dhOk]]
        ELSE [s1 EXCEPT !.m_Worker = Without(@, j)]

-----------------------------------------------------------------------------
(* Hooks and lookup handlers *)

\* the hook Tick binds for prefetching
AlignHook == "PathAlignJob"
\* the hooks callers of EnsurePathToService pass
UserHooks == {"h1", "h2"}

\* PathAlignJob::HandleResult
PathAlignJobHandleResult(s, ctx) ==
    IF ctx # NullCtx THEN AsyncEncryptAndSendTo(s, ctx) ELSE s

\* a PathEnsureHook is called with a context (or null)
CallHook(s, hook, ctx) ==
    LET s1 == [s EXCEPT !.ev.hooks = Append(@, [hook |-> hook, ctx |-> ctx])]
    IN  IF hook = AlignHook THEN PathAlignJobHandleResult(s1, ctx) ELSE s1

\* a variant of PutNewOutboundContext that makes a new context also when the
\* address has one
PutNewOutboundContextReplaces(s, introset, sendOk) ==
    LET addr == Addr(introset.A)
        s1 == NewOutboundContext(s, addr, introset, sendOk)
    IN  IF addr \in DOMAIN s1.m_PendingServiceLookups
        THEN LET f == s1.m_PendingServiceLookups[addr]
             IN  CallHook([s1 EXCEPT !.m_PendingServiceLookups = Erase(@, addr)],
                          f, addr)
        ELSE s1

\* Endpoint::PutNewOutboundContext
PutNewOutboundContext(s, introset, sendOk) ==
    LET addr == Addr(introset.A)
        s1 == IF addr \notin DOMAIN s.m_RemoteSessions
              THEN NewOutboundContext(s, addr, introset, sendOk)
              ELSE s
    IN  IF addr \in DOMAIN s1.m_PendingServiceLookups
        THEN LET f == s1.m_PendingServiceLookups[addr]
             IN  CallHook([s1 EXCEPT !.m_PendingServiceLookups = Erase(@, addr)],
                          f, addr)
        ELSE s1

\* Endpoint::OnOutboundLookup with a non-null introset
OnOutboundLookup(s, introset, sendOk) == PutNewOutboundContext(s, introset, sendOk)

\* Endpoint::OnOutboundLookup(nullptr) and OnIntroSetUpdate(nullptr)
HandleNull(s, handler) == s

\* the HandlerFunc of a HiddenServiceAddressLookup, with a non-null introset
Handle(s, handler, introset, sendOk) ==
    IF handler.fn = "OnOutboundLookup" THEN OnOutboundLookup(s, introset, sendOk)
    ELSE OnIntroSetUpdate(s, handler.ctx, introset)

\* HiddenServiceAddressLookup::HandleResponse
HSLookupHandleResponse(s, lookup, results, sendOk) ==
    IF Cardinality(results) = 1
    THEN Handle(s, lookup.handler, CHOOSE i \in results : TRUE, sendOk)
    ELSE HandleNull(s, lookup.handler)

\* Endpoint::CachedTagResult::HandleResponse
CachedTagResultHandleResponse(s, tag, introsets) ==
    IF introsets \subseteq s.m_PrefetchedTags[tag].result THEN s
    ELSE [s EXCEPT !.m_PrefetchedTags[tag].result = @ \cup introsets,
                   !.m_PrefetchedTags[tag].lastModified = s.now]

\* IServiceLookup::HandleResponse, dispatched on the kind of lookup
HandleResponse(s, lookup, results, sendOk) ==
    LET s1 == [s EXCEPT !.ev.handled =
                   Append(@, [txid |-> lookup.txid, results |-> results])]
    IN  IF lookup.name = "HSLookup"
        THEN HSLookupHandleResponse(s1, lookup, results, sendOk)
        ELSE CachedTagResultHandleResponse(s1, lookup.remote, results)

-----------------------------------------------------------------------------
(* Endpoint::HandleGotIntroMessage *)

\* a variant of the loop over msg->I that takes every signature for good
RECURSIVE GotIntroLoopTrusting(_, _, _, _)
GotIntroLoopTrusting(s, msg, k, remote) ==
    IF k > Len(msg.I) THEN [s |-> s, end |-> "done", at |-> k, remote |-> remote]
    ELSE LET introset == msg.I[k]
             own == introset.A = Self /\ s.m_CurrentPublishTX = msg.T
         IN  IF own
             THEN [s |-> IntroSetPublished(s), end |-> "published", at |-> k,
                   remote |-> remote]
             ELSE GotIntroLoopTrusting(s, msg, k + 1, remote \cup {introset})

\* the loop over msg->I, at the k-th introset; remote is the set collected so
\* far.  The result is the state together with how the loop ended, and at
\* which introset: "invalid" and "publish failed" are the return false,
\* "published" the return true inside the loop.
RECURSIVE GotIntroLoop(_, _, _, _)
GotIntroLoop(s, msg, k, remote) ==
    IF k > Len(msg.I) THEN [s |-> s, end |-> "done", at |-> k, remote |-> remote]
    ELSE LET introset == msg.I[k]
             own == introset.A = Self /\ s.m_CurrentPublishTX = msg.T
         IN  IF ~VerifySignature(introset)
             THEN IF own
                  THEN [s |-> IntroSetPublishFail(s), end |-> "publish failed",
                        at |-> k, remote |-> remote]
                  ELSE [s |-> s, end |-> "invalid", at |-> k, remote |-> remote]
             ELSE IF own
             THEN [s |-> IntroSetPublished(s), end |-> "published", at |-> k,
                   remote |-> remote]
             ELSE GotIntroLoop(s, msg, k + 1, remote \cup {introset})

\* a variant of HandleGotIntroMessage that leaves the lookup pending after it
\* has handed the answer over
HandleGotIntroMessageKeeps(s, msg, sendOk) ==
    LET l == GotIntroLoop(s, msg, 1, {})
        Went(x, way) ==
            [x EXCEPT !.ev.msg =
                [way |-> way, at |-> l.at, idle |-> FALSE,
                 fn |-> IF way = "forwarded" THEN s.m_PendingLookups[msg.T].handler.fn
                        ELSE "none"]]
    IN  IF l.end \in {"invalid", "publish failed"} THEN Ret(Went(l.s, l.end), FALSE)
        ELSE IF l.end = "published" THEN Ret(Went(l.s, "published"), TRUE)
        ELSE IF msg.T \notin DOMAIN s.m_PendingLookups THEN Ret(Went(s, "unknown"), TRUE)
        ELSE Ret(Went(HandleResponse(s, s.m_PendingLookups[msg.T], l.remote, sendOk),
                      "forwarded"), TRUE)

\* Endpoint::HandleGotIntroMessage; ev.msg keeps which way the handler went,
\* at which introset of the message it left the loop, for an answer to a
\* publish whether none was outstanding at the call (m_CurrentPublishTX = 0),
\* and for an answer to a lookup which handler the lookup had
HandleGotIntroMessage(s, msg, sendOk) ==
    LET l == GotIntroLoop(s, msg, 1, {})
        Went(x, way) ==
            [x EXCEPT !.ev.msg =
                [way |-> way, at |-> l.at,
                 idle |-> /\ way \in {"published", "publish failed"}
                          /\ s.m_CurrentPublishTX = 0,
                 fn |-> IF way = "forwarded" THEN s.m_PendingLookups[msg.T].handler.fn
                        ELSE "none"]]
    IN  IF l.end \in {"invalid", "publish failed"} THEN Ret(Went(l.s, l.end), FALSE)
        ELSE IF l.end = "published" THEN Ret(Went(l.s, "published"), TRUE)
        ELSE IF msg.T \notin DOMAIN s.m_PendingLookups THEN Ret(Went(s, "unknown"), TRUE)
        ELSE LET lookup == s.m_PendingLookups[msg.T]
                 s1 == [s EXCEPT !.m_PendingLookups = Erase(@, msg.T)]
             IN  Ret(Went(HandleResponse(s1, lookup, l.remote, sendOk), "forwarded"),
                     TRUE)

-----------------------------------------------------------------------------
(* Endpoint::EnsurePathToService *)

\* what EnsurePathToService returns
EnsurePathToServiceResult(s, remote, sendOk) ==
    IF ~HasEstablishedPath(s.m_Paths) THEN FALSE
    ELSE IF remote \in DOMAIN s.m_RemoteSessions THEN TRUE
    ELSE IF remote \in DOMAIN s.m_PendingServiceLookups THEN FALSE
    ELSE sendOk

\* a variant of EnsurePathToService that looks the service up also when it has
\* a session
EnsurePathToServiceAnew(s, remote, hook, r, sendOk) ==
    IF ~HasEstablishedPath(s.m_Paths) THEN s
    ELSE IF remote \in DOMAIN s.m_PendingServiceLookups THEN s
    ELSE LET s1 == [s EXCEPT !.m_PendingServiceLookups = Put(@, remote, hook)]
             txid == GenTXID(s1, r)
             s2 == NewLookup(s1, "HSLookup",
                             [fn |-> "OnOutboundLookup", ctx |-> NullCtx],
                             remote, txid)
         IN  SendRequestViaPath(s2, txid, remote, sendOk)

\* a variant of EnsurePathToService without the check for a duplicate
EnsurePathToServiceAgain(s, remote, hook, r, sendOk) ==
    IF ~HasEstablishedPath(s.m_Paths) THEN s
    ELSE IF remote \in DOMAIN s.m_RemoteSessions THEN CallHook(s, hook, remote)
    ELSE LET s1 == [s EXCEPT !.m_PendingServiceLookups = Put(@, remote, hook)]
             txid == GenTXID(s1, r)
             s2 == NewLookup(s1, "HSLookup",
                             [fn |-> "OnOutboundLookup", ctx |-> NullCtx],
                             remote, txid)
         IN  SendRequestViaPath(s2, txid, remote, sendOk)

\* Endpoint::EnsurePathToService
EnsurePathToService(s, remote, hook, r, sendOk) ==
    IF ~HasEstablishedPath(s.m_Paths) THEN s
    ELSE IF remote \in DOMAIN s.m_RemoteSessions THEN CallHook(s, hook, remote)
    ELSE IF remote \in DOMAIN s.m_PendingServiceLookups THEN s
    ELSE LET s1 == [s EXCEPT !.m_PendingServiceLookups = Put(@, remote, hook)]
             txid == GenTXID(s1, r)
             s2 == NewLookup(s1, "HSLookup",
                             [fn |-> "OnOutboundLookup", ctx |-> NullCtx],
                             remote, txid)
         IN  SendRequestViaPath(s2, txid, remote, sendOk)

-----------------------------------------------------------------------------
(* Endpoint::Tick *)

Tags == {"t1"}
AddrOrder == << Addr("s1"), Addr("s2"), Addr("self") >>

\* scaled time after which a cached tag result is looked up again
TAG_REFRESH_INTERVAL == 2

\* CachedTagResult(tag)
NewCachedTagResult == [result |-> {}, lastModified |-> 0, lastRequest |-> 0]

\* Endpoint::CachedTagResult::Expire
CachedTagResultExpire(c, t) ==
    LET keep == {i \in c.result : ~HasExpiredIntros(i, t)}
    IN  IF keep = c.result THEN c
        ELSE [c EXCEPT !.result = keep, !.lastModified = t]

\* CachedTagResult::ShouldRefresh
ShouldRefresh(c, t) == USub(t, c.lastRequest) >= TAG_REFRESH_INTERVAL

\* the part of Tick that publishes the descriptors; the result tells whether
\* Tick returned from inside it
TickPublish(s, t, ptx, signOk, sendOk) ==
    IF ~ShouldPublishDescriptors(s, t) THEN [s |-> s, returned |-> FALSE]
    ELSE LET I == GetCurrentIntroductions(s.m_Paths)
         IN  IF Len(I) = 0
             THEN [s |-> IF ShouldBuildMore(s.m_Paths)
                         THEN [s EXCEPT !.m_Paths = ManualRebuild(@, 1)]
                         ELSE s,
                   returned |-> TRUE]
             ELSE LET s1 == [s EXCEPT !.m_IntroSet.I = I]
                  IN  IF ~signOk THEN [s |-> s1, returned |-> TRUE]
                      ELSE [s |-> PublishIntroSet(
                                      [s1 EXCEPT !.m_IntroSet = SignIntroSet(@)],
                                      ptx, sendOk),
                            returned |-> FALSE]

\* the loop that expires pending lookups, over the txids in q
RECURSIVE TickExpireLookups(_, _, _, _)
TickExpireLookups(s, q, t, sendOk) ==
    IF q = << >> THEN s
    ELSE LET txid == Head(q)
             lookup == s.m_PendingLookups[txid]
         IN  IF IsTimedOut(lookup, t)
             THEN TickExpireLookups(
                      [HandleResponse(s, lookup, {}, sendOk)
                          EXCEPT !.m_PendingLookups = Erase(@, txid)],
                      Tail(q), t, sendOk)
             ELSE TickExpireLookups(s, Tail(q), t, sendOk)

\* the loop that expires pending router lookups
TickExpireRouters(s, t) ==
    [s EXCEPT !.m_PendingRouters =
        [x \in {y \in DOMAIN @ : ~IsExpired(@[y], t)} |-> @[x]]]

\* the loop over m_PrefetchAddrs, over the addresses in q
RECURSIVE TickPrefetchAddrs(_, _, _, _)
TickPrefetchAddrs(s, q, r, sendOk) ==
    IF q = << >> THEN s
    ELSE LET addr == Head(q)
             s1 == IF addr \in s.m_PrefetchAddrs /\ addr \notin DOMAIN s.m_RemoteSessions
                   THEN EnsurePathToService(s, addr, AlignHook, r, sendOk)
                   ELSE s
         IN  TickPrefetchAddrs(s1, Tail(q), r, sendOk)

\* the inner loop of the prefetch tags, over the introsets in q that are in
\* the cached result
RECURSIVE TickAlignResults(_, _, _, _, _)
TickAlignResults(s, results, q, r, sendOk) ==
    IF q = << >> THEN s
    ELSE LET addr == Addr(Head(q).A)
             s1 == IF /\ Head(q) \in results
                      /\ addr \notin DOMAIN s.m_PendingServiceLookups
                   THEN EnsurePathToService(s, addr, AlignHook, r, sendOk)
                   ELSE s
         IN  TickAlignResults(s1, results, Tail(q), r, sendOk)

\* TagLookupJob: constructed with a fresh txid and sent over the path
TagLookupJob(s, tag, r, sendOk) ==
    LET txid == GenTXID(s, r)
        s1 == NewLookup(s, "taglookup", [fn |-> "CachedTagResult", ctx |-> NullCtx],
                        tag, txid)
        s2 == [s1 EXCEPT !.m_PrefetchedTags[tag].lastRequest = s.now]
    IN  SendRequestViaPath(s2, txid, tag, sendOk)

\* the body of the loop over m_PrefetchTags
TickPrefetchTag(s, tag, t, r, sendOk) ==
    LET s1 == IF tag \in DOMAIN s.m_PrefetchedTags THEN s
              ELSE [s EXCEPT !.m_PrefetchedTags = Put(@, tag, NewCachedTagResult)]
        s2 == TickAlignResults(s1, s1.m_PrefetchedTags[tag].result, IntroSetOrder,
                               r, sendOk)
        s3 == [s2 EXCEPT !.m_PrefetchedTags[tag] = CachedTagResultExpire(@, t)]
    IN  IF ShouldRefresh(s3.m_PrefetchedTags[tag], t) /\ HasEstablishedPath(s3.m_Paths)
        THEN TagLookupJob(s3, tag, r, sendOk)
        ELSE s3

\* the loop over m_PrefetchTags (one tag in this model)
TickPrefetchTags(s, t, r, sendOk) ==
    IF "t1" \in s.m_PrefetchTags THEN TickPrefetchTag(s, "t1", t, r, sendOk) ELSE s

\* the loop over m_RemoteSessions, over the addresses in q
RECURSIVE TickRemoteSessions(_, _, _, _, _)
TickRemoteSessions(s, q, t, r, sendOk) ==
    IF q = << >> THEN s
    ELSE LET addr == Head(q)
             s1 == IF addr \in DOMAIN s.m_RemoteSessions
                   THEN LET s0 == OutboundContextTick(s, addr, t, r, sendOk)
                        IN  IF OutboundContextTickResult(s, addr, t)
                            THEN [s0 EXCEPT !.m_RemoteSessions = Erase(@, addr)]
                            ELSE s0
                   ELSE s
         IN  TickRemoteSessions(s1, Tail(q), t, r, sendOk)

\* the first statement of Tick: the txid of the publish is reset
TickResetTX(s, t) ==
    IF USub(t, s.m_LastPublishAttempt) >= INTROSET_PUBLISH_RETRY_INTERVAL
    THEN [s EXCEPT !.m_CurrentPublishTX = 0]
    ELSE s

\* Endpoint::Tick
Tick(s, t, ptx, r, signOk, sendOk) ==
    LET s0 == TickResetTX(s, t)
        p == TickPublish(s0, t, ptx, signOk, sendOk)
    IN  IF p.returned THEN p.s
        ELSE LET s1 == TickExpireLookups(p.s, SortedSeq(DOMAIN p.s.m_PendingLookups),
                                         t, sendOk)
                 s2 == TickExpireRouters(s1, t)
                 s3 == TickPrefetchAddrs(s2, AddrOrder, r, sendOk)
                 s4 == TickPrefetchTags(s3, t, r, sendOk)
             IN  TickRemoteSessions(s4, AddrOrder, t, r, sendOk)

-----------------------------------------------------------------------------
(* The session cache *)

ConvoTags == {"c1", "c2"}
SharedKeys == {"k1", "k2"}

\* Session{}
NewSession ==
    [remote |-> "none", intro |-> ClearIntro, sharedKey |-> "zero",
     seqno |-> 0, lastUsed |-> 0]

\* m_Sessions.find(tag), inserting Session{} when the tag is absent
FindOrInsert(sessions, tag) ==
    IF tag \in DOMAIN sessions THEN sessions ELSE Put(sessions, tag, NewSession)

\* a variant of PutSenderFor that starts the session anew
PutSenderForResets(s, tag, info) ==
    [s EXCEPT !.m_Sessions =
        [Put(@, tag, NewSession) EXCEPT ![tag].remote = info, ![tag].lastUsed = s.now]]

\* Endpoint::PutSenderFor
PutSenderFor(s, tag, info) ==
    [s EXCEPT !.m_Sessions =
        [FindOrInsert(@, tag) EXCEPT ![tag].remote = info, ![tag].lastUsed = s.now]]

\* a variant of PutIntroFor that starts the session anew
PutIntroForResets(s, tag, intro) ==
    [s EXCEPT !.m_Sessions =
        [Put(@, tag, NewSession) EXCEPT ![tag].intro = intro, ![tag].lastUsed = s.now]]

\* Endpoint::PutIntroFor
PutIntroFor(s, tag, intro) ==
    [s EXCEPT !.m_Sessions =
        [FindOrInsert(@, tag) EXCEPT ![tag].intro = intro, ![tag].lastUsed = s.now]]

\* Endpoint::PutCachedSessionKeyFor
PutCachedSessionKeyFor(s, tag, k) ==
    [s EXCEPT !.m_Sessions =
        [FindOrInsert(@, tag) EXCEPT ![tag].sharedKey = k, ![tag].lastUsed = s.now]]

\* Endpoint::GetSenderFor: whether it returns true, and the value it gives
GetSenderFor(s, tag) ==
    IF tag \notin DOMAIN s.m_Sessions THEN [found |-> FALSE, value |-> "none"]
    ELSE [found |-> TRUE, value |-> s.m_Sessions[tag].remote]

\* Endpoint::GetIntroFor
GetIntroFor(s, tag) ==
    IF tag \notin DOMAIN s.m_Sessions THEN [found |-> FALSE, value |-> ClearIntro]
    ELSE [found |-> TRUE, value |-> s.m_Sessions[tag].intro]

\* Endpoint::GetCachedSessionKeyFor
GetCachedSessionKeyFor(s, tag) ==
    IF tag \notin DOMAIN s.m_Sessions THEN [found |-> FALSE, value |-> "zero"]
    ELSE [found |-> TRUE, value |-> s.m_Sessions[tag].sharedKey]

\* Endpoint::GetSeqNoForConvo: the value returned
GetSeqNoForConvoResult(s, tag) ==
    IF tag \notin DOMAIN s.m_Sessions THEN 0
    ELSE (s.m_Sessions[tag].seqno + 1) % UMod

\* Endpoint::GetSeqNoForConvo: the state it leaves
GetSeqNoForConvo(s, tag) ==
    IF tag \notin DOMAIN s.m_Sessions THEN s
    ELSE [s EXCEPT !.m_Sessions[tag].seqno = (@ + 1) % UMod]

\* AsyncIntroGen::Result, run by the logic thread on the j-th job; secret is
\* what it reads from the sharedKey buffer of the context
AsyncIntroGenResult(s, j, secret, r, sendOk) ==
    LET job == s.m_Worker[j]
        s1 == PutCachedSessionKeyFor(s, job.tag, secret)
        s2 == PutIntroFor(s1, job.tag, job.intro)
        s3 == PutSenderFor(s2, job.tag, job.remote)
        s4 == Send(s3, job.ctx, r, sendOk)
    IN  [s4 EXCEPT !.m_Worker = Without(@, j)]

-----------------------------------------------------------------------------
(* Endpoint::Start *)

\* the deferred initializers: IsolateNetwork is the one SetOption("netns")
\* queues, the others are queued by the handlers built on Endpoint
Initializers == {"IsolateNetwork", "SetupNetworking"}

\* what the initializers give when Start runs them: IsolateNetwork returns
\* true always
InitOutcomes == {f \in [Initializers -> BOOLEAN] : f["IsolateNetwork"]}

\* a variant of the loop of Start that drops an initializer that has failed
RECURSIVE StartLoopDrops(_, _)
StartLoopDrops(s, outcome) ==
    IF s.m_OnInit = << >> THEN Ret(s, TRUE)
    ELSE LET f == Head(s.m_OnInit)
             s1 == [s EXCEPT !.ev.msg.ran = Append(@, f),
                             !.ev.msg.ok = Append(@, outcome[f])]
         IN  IF outcome[f]
             THEN StartLoopDrops([s1 EXCEPT !.m_OnInit = Tail(@)], outcome)
             ELSE Ret([s1 EXCEPT !.m_OnInit = Tail(@)], FALSE)

\* the loop of Start over m_OnInit; ev.msg keeps the initializers run and
\* what each has returned
RECURSIVE StartLoop(_, _)
StartLoop(s, outcome) ==
    IF s.m_OnInit = << >> THEN Ret(s, TRUE)
    ELSE LET f == Head(s.m_OnInit)
             s1 == [s EXCEPT !.ev.msg.ran = Append(@, f),
                             !.ev.msg.ok = Append(@, outcome[f])]
         IN  IF outcome[f]
             THEN StartLoop([s1 EXCEPT !.m_OnInit = Tail(@)], outcome)
             ELSE Ret(s1, FALSE)

\* Endpoint::Start; keysOk is what Identity::EnsureKeys returns, ev.msg.keys
\* what became of the identity
Start(s, keysOk, outcome) ==
    LET s0 == [s EXCEPT !.ev.msg = [keys |-> "none", ran |-> << >>, ok |-> << >>]]
    IN  IF s0.m_Keyfile # ""
        THEN IF ~keysOk
             THEN Ret([s0 EXCEPT !.ev.msg.keys = "failed"], FALSE)
             ELSE StartLoop([s0 EXCEPT !.m_Identity = "loaded",
                                       !.ev.msg.keys = "loaded"], outcome)
        ELSE StartLoop([s0 EXCEPT !.m_Identity = "generated",
                                  !.ev.msg.keys = "generated"], outcome)

-----------------------------------------------------------------------------
(* The actions: one per handler, and the steps of the environment *)

\* the model follows a handler only while its tables stay within the bounds
WithinBounds(s) ==
    /\ Cardinality(DOMAIN s.m_PendingLookups) <= MaxPending
    /\ Len(s.m_Worker) <= MaxJobs

\* a step that is no handler of the endpoint leaves no observation
Env(op, s) == [s EXCEPT !.ev = NewEv("none")]

\* time passes
AdvanceClock ==
    /\ ~hung
    /\ now < MaxTime
    /\ Becomes(Env("AdvanceClock", [State EXCEPT !.now = now + 1]))

\* the path builder starts a build, in one of slots, while ShouldBuildMore()
\* holds
BuildPath(slots) ==
    /\ ~hung
    /\ ShouldBuildMore(m_Paths)
    /\ \E p \in slots :
          /\ m_Paths[p].status = "none"
          /\ Becomes(Env("BuildPath",
                 [State EXCEPT !.m_Paths[p] = [status |-> "building", expiresAt |-> 0]]))

\* a build completes: the path is established and lives for PATH_LIFETIME
PathBuilt(slots) ==
    /\ ~hung
    /\ \E p \in slots :
          /\ m_Paths[p].status = "building"
          /\ Becomes(Env("PathBuilt",
                 [State EXCEPT !.m_Paths[p] =
                     [status |-> "established", expiresAt |-> now + PATH_LIFETIME]]))

\* PathSet::ExpirePaths: expired and timed out paths are dropped
ExpirePaths ==
    /\ ~hung
    /\ \E p \in PathIds :
          \/ m_Paths[p].status = "established" /\ m_Paths[p].expiresAt <= now
          \/ m_Paths[p].status = "building"
    /\ \E drop \in SUBSET {p \in PathIds : m_Paths[p].status = "building"} :
          Becomes(Env("ExpirePaths",
              [State EXCEPT !.m_Paths =
                  [p \in PathIds |->
                      IF \/ p \in drop
                         \/ @[p].status = "established" /\ @[p].expiresAt <= now
                      THEN NoPath ELSE @[p]]]))

\* the values of llarp_randint() that GenTXID starts from.  GenTXID only asks
\* whether the value is the txid of a pending lookup: the draw 1 is free for
\* the first lookup and taken for the next ones, which walk on from it.
TxDraws == {1}

\* whether a Tick now gets to publish: only then it signs and draws a txid
PublishDue == ShouldPublishDescriptors(TickResetTX(State, now), now)

\* the router calls Endpoint::Tick with the current time
DoTick ==
    /\ ~hung
    /\ \E ptx \in IF PublishDue THEN TxIds ELSE {0},
          signOk \in IF PublishDue THEN BOOLEAN ELSE {TRUE},
          r \in TxDraws, sendOk \in BOOLEAN :
          LET s == Tick(Enter("Tick"), now, ptx, r, signOk, sendOk)
          IN  WithinBounds(s) /\ Becomes(s)

\* the txids a GotIntroMessage with some of introsets is tried with: the
\* handler compares msg->T with the keys of m_PendingLookups and, for an
\* introset of the endpoint's own, with m_CurrentPublishTX, so one txid stands
\* for all the others
MsgTxIds(introsets) ==
    LET known == DOMAIN m_PendingLookups \cup
                 (IF \E i \in introsets : i.A = Self THEN {m_CurrentPublishTX} ELSE {})
        other == TxIds \ known
    IN  known \cup (IF other = {} THEN {} ELSE {CHOOSE x \in other : TRUE})

\* whether handling msg may ask a path to send: only EnsureRouterIsKnown does,
\* for the router of an introduction selected before the last one of an
\* introset
MaySend(msg) ==
    /\ msg.T \in DOMAIN m_PendingLookups
    /\ \E k \in 1 .. Len(msg.I) : Len(msg.I[k].I) > 1

\* the DHT delivers a GotIntroMessage carrying some of introsets
GotIntro(introsets) ==
    /\ ~hung
    /\ \E msg \in MessagesOf(MsgTxIds(introsets), introsets) :
       \E sendOk \in IF MaySend(msg) THEN BOOLEAN ELSE {TRUE} :
          LET s == HandleGotIntroMessage(Enter("HandleGotIntroMessage"), msg, sendOk)
          IN  WithinBounds(s) /\ Becomes(s)

\* a caller asks for a path to one of the remote services in remotes
CallEnsurePathToService(remotes) ==
    /\ ~hung
    /\ \E remote \in remotes, hook \in UserHooks, r \in TxDraws, sendOk \in BOOLEAN :
          LET s0 == Enter("EnsurePathToService")
              s == Ret(EnsurePathToService(s0, remote, hook, r, sendOk),
                       EnsurePathToServiceResult(s0, remote, sendOk))
          IN  WithinBounds(s)
              /\ Becomes([s EXCEPT !.ev.msg = [remote |-> remote, hook |-> hook]])

\* Endpoint::SetOption("prefetch-addr", v)
SetOptionPrefetchAddr ==
    /\ ~hung
    /\ \E addr \in RemoteAddrs :
          /\ addr \notin m_PrefetchAddrs
          /\ Becomes(Env("SetOption",
                 [State EXCEPT !.m_PrefetchAddrs = @ \cup {addr}]))

\* Endpoint::SetOption("prefetch-tag", v)
SetOptionPrefetchTag ==
    /\ ~hung
    /\ \E tag \in Tags :
          /\ tag \notin m_PrefetchTags
          /\ Becomes(Env("SetOption",
                 [State EXCEPT !.m_PrefetchTags = @ \cup {tag}]))

\* Endpoint::SetOption("keyfile", v)
SetOptionKeyfile ==
    /\ ~hung
    /\ \E v \in {"", "identity.key"} :
          /\ v # m_Keyfile
          /\ Becomes(Env("SetOption", [State EXCEPT !.m_Keyfile = v]))

\* Endpoint::SetOption("netns", v): IsolateNetwork is deferred to Start
SetOptionNetNS ==
    /\ ~hung
    /\ Len(m_OnInit) < MaxInit
    /\ Becomes(Env("SetOption",
           [State EXCEPT !.m_OnInit = Append(@, "IsolateNetwork")]))

\* a handler built on Endpoint defers an initializer of its own to Start
DeferInitializer ==
    /\ ~hung
    /\ Len(m_OnInit) < MaxInit
    /\ \E f \in Initializers \ {"IsolateNetwork"} :
          Becomes(Env("DeferInitializer", [State EXCEPT !.m_OnInit = Append(@, f)]))

\* the router starts the endpoint
CallStart ==
    /\ ~hung
    /\ \E keysOk \in IF m_Keyfile # "" THEN BOOLEAN ELSE {TRUE},
          outcome \in InitOutcomes :
          Becomes(Start(Enter("Start"), keysOk, outcome))

\* a path of the context's own builder to router is established
ContextPathBuilt ==
    /\ ~hung
    /\ \E addr \in DOMAIN m_RemoteSessions, router \in Routers :
          /\ router \notin m_RemoteSessions[addr].paths
          /\ Becomes(Env("HandlePathBuilt",
                 [State EXCEPT !.m_RemoteSessions[addr].paths = @ \cup {router}]))

\* data is to be sent over a context
CallAsyncEncryptAndSendTo ==
    /\ ~hung
    /\ \E addr \in DOMAIN m_RemoteSessions :
          LET s0 == Enter("AsyncEncryptAndSendTo")
              s == AsyncEncryptAndSendTo(s0, addr)
          IN  /\ WithinBounds(s)
              /\ Becomes([s EXCEPT !.ev.msg =
                             [ctx |-> addr, went |-> AsyncEncryptAndSendToWent(s0, addr)]])

\* the values the sharedKey buffer of the context of the j-th job may hold
\* after Work has written key to it, or may show to Result when it holds key:
\* key, or a torn value when the Work of another job of the same context may
\* be writing it at the same time
BufferAfter(j, key) ==
    {key} \cup
    IF \E i \in 1 .. Len(m_Worker) :
           /\ i # j
           /\ m_Worker[i].stage = "work"
           /\ m_Worker[i].ctx = m_Worker[j].ctx
    THEN {TornKey} ELSE {}

\* a worker thread runs AsyncIntroGen::Work of a queued job
WorkerRuns ==
    /\ ~hung
    /\ \E j \in 1 .. Len(m_Worker), tag \in ConvoTags, key \in SharedKeys,
          kemOk \in BOOLEAN, dhOk \in BOOLEAN, encOk \in BOOLEAN :
          /\ m_Worker[j].stage = "work"
          /\ \E buf \in BufferAfter(j, key) :
                LET s == AsyncIntroGenWork(Enter("AsyncIntroGen::Work"), j, tag,
                                           key, buf, kemOk, dhOk, encOk)
                IN  Becomes([s EXCEPT !.ev.msg =
                                [ctx |-> m_Worker[j].ctx, tag |-> tag, key |-> key,
                                 kem |-> kemOk, dh |-> dhOk, posted |-> encOk]])

\* the logic thread runs AsyncIntroGen::Result of a job whose Work is done
ResultRuns ==
    /\ ~hung
    /\ \E j \in 1 .. Len(m_Worker), r \in TxDraws, sendOk \in BOOLEAN :
          /\ m_Worker[j].stage = "result"
          /\ \E secret \in BufferAfter(j, m_RemoteSessions[m_Worker[j].ctx].sharedKey) :
             LET s0 == Enter("AsyncIntroGen::Result")
                 s == AsyncIntroGenResult(s0, j, secret, r, sendOk)
             IN  /\ WithinBounds(s)
                 /\ Becomes([s EXCEPT !.ev.msg =
                                [ctx |-> m_Worker[j].ctx, tag |-> m_Worker[j].tag,
                                 key |-> m_Worker[j].key,
                                 kem |-> m_Worker[j].kem, dh |-> m_Worker[j].dh,
                                 framed |-> SendFrames(s, m_Worker[j].ctx, r, sendOk)]])

\* a router contact is learned and stored in the node database
LearnRouter ==
    /\ ~hung
    /\ \E router \in Routers :
          /\ router \notin nodedb
          /\ Becomes(Env("LearnRouter", [State EXCEPT !.nodedb = @ \cup {router}]))

\* the session cache is written
PutSession ==
    /\ ~hung
    /\ \E tag \in ConvoTags :
          \/ \E info \in {"s1", "s2"} :
                Becomes([PutSenderFor(Enter("PutSenderFor"), tag, info)
                            EXCEPT !.ev.msg = [tag |-> tag]])
          \/ \E intro \in RemoteIntros :
                Becomes([PutIntroFor(Enter("PutIntroFor"), tag, intro)
                            EXCEPT !.ev.msg = [tag |-> tag]])
          \/ \E k \in SharedKeys :
                Becomes([PutCachedSessionKeyFor(Enter("PutCachedSessionKeyFor"), tag, k)
                            EXCEPT !.ev.msg = [tag |-> tag]])

\* a frame is numbered; seqReturned keeps, for each tag, the values returned
\* since the tag has a session
CallGetSeqNoForConvo ==
    /\ ~hung
    /\ \E tag \in ConvoTags :
          LET s0 == Enter("GetSeqNoForConvo")
              n == GetSeqNoForConvoResult(s0, tag)
              s == Ret(GetSeqNoForConvo(s0, tag), n)
          IN  /\ Len(seqReturned[tag]) < MaxSeq
              /\ Becomes([s EXCEPT !.seqReturned[tag] =
                                       IF tag \in DOMAIN m_Sessions THEN Append(@, n) ELSE @,
                                   !.ev.msg = [tag |-> tag]])

-----------------------------------------------------------------------------
(* The specifications *)

\* the endpoint as its constructor leaves it
Init ==
    /\ now = Clock0
    /\ m_CurrentPublishTX = 0
    /\ m_LastPublish = 0
    /\ m_LastPublishAttempt = 0
    /\ m_IntroSet = EmptyIntroSet
    /\ m_Paths = [p \in PathIds |-> NoPath]
    /\ m_PendingLookups = EmptyMap
    /\ m_PendingRouters = EmptyMap
    /\ m_PendingServiceLookups = EmptyMap
    /\ m_RemoteSessions = EmptyMap
    /\ m_PrefetchAddrs = {}
    /\ m_PrefetchTags = {}
    /\ m_PrefetchedTags = EmptyMap
    /\ m_Sessions = EmptyMap
    /\ nodedb = {}
    /\ m_Worker = << >>
    /\ m_Keyfile = ""
    /\ m_Identity = "none"
    /\ m_OnInit = << >>
    /\ hung = FALSE
    /\ seqReturned = [tag \in ConvoTags |-> << >>]
    /\ ev = NewEv("none")

\* the endpoint at work: Start has generated the identity, at Clock0 its
\* first path was built, and Tick has published the descriptor with the introduction of that path and the DHT
\* has confirmed it
InitRunning ==
    /\ now = Clock0
    /\ m_CurrentPublishTX = 0
    /\ m_LastPublish = Clock0
    /\ m_LastPublishAttempt = Clock0
    /\ m_IntroSet = [A |-> Self,
                     I |-> << [router |-> PathRouter(1), pathID |-> 1,
                               expiresAt |-> Clock0 + PATH_LIFETIME] >>,
                     T |-> 0, sig |-> TRUE]
    /\ m_Paths = [p \in PathIds |->
                     IF p = 1 THEN [status |-> "established",
                                    expiresAt |-> Clock0 + PATH_LIFETIME]
                     ELSE NoPath]
    /\ m_PendingLookups = EmptyMap
    /\ m_PendingRouters = EmptyMap
    /\ m_PendingServiceLookups = EmptyMap
    /\ m_RemoteSessions = EmptyMap
    /\ m_PrefetchAddrs = {}
    /\ m_PrefetchTags = {}
    /\ m_PrefetchedTags = EmptyMap
    /\ m_Sessions = EmptyMap
    /\ nodedb = {}
    /\ m_Worker = << >>
    /\ m_Keyfile = ""
    /\ m_Identity = "generated"
    /\ m_OnInit = << >>
    /\ hung = FALSE
    /\ seqReturned = [tag \in ConvoTags |-> << >>]
    /\ ev = NewEv("none")

\* publishing: the clock, the paths, Tick and the DHT's answers.  The builder
\* gets one path built; a second build is started by Tick only (ManualRebuild)
\* and is never completed.
NextPublish ==
    \/ AdvanceClock
    \/ BuildPath({1})
    \/ PathBuilt({1})
    \/ ExpirePaths
    \/ DoTick
    \/ GotIntro(PublishIntroSets)

SpecPublish == Init /\ [][NextPublish]_vars

\* the introsets in the answers to a lookup: two well signed introsets of the
\* service s1, the later one with another introduction, and a badly signed one
LookupIntroSets == {IntroSetOrder[3], IntroSetOrder[4], IntroSetOrder[5]}

\* lookups: callers ask for paths to services, Tick expires the lookups and
\* ticks the contexts, the DHT answers
NextLookup ==
    \/ AdvanceClock
    \/ DoTick
    \/ GotIntro(LookupIntroSets)
    \/ CallEnsurePathToService({Addr("s1")})

SpecLookup == InitRunning /\ [][NextLookup]_vars

\* the running endpoint as a record
Running ==
    [ now                     |-> Clock0,
      m_CurrentPublishTX      |-> 0,
      m_LastPublish           |-> Clock0,
      m_LastPublishAttempt    |-> Clock0,
      m_IntroSet              |-> [A |-> Self,
                                   I |-> << [router |-> PathRouter(1), pathID |-> 1,
                                             expiresAt |-> Clock0 + PATH_LIFETIME] >>,
                                   T |-> 0, sig |-> TRUE],
      m_Paths                 |-> [p \in PathIds |->
                                      IF p = 1 THEN [status |-> "established",
                                                     expiresAt |-> Clock0 + PATH_LIFETIME]
                                      ELSE NoPath],
      m_PendingLookups        |-> EmptyMap,
      m_PendingRouters        |-> EmptyMap,
      m_PendingServiceLookups |-> EmptyMap,
      m_RemoteSessions        |-> EmptyMap,
      m_PrefetchAddrs         |-> {},
      m_PrefetchTags          |-> {},
      m_PrefetchedTags        |-> EmptyMap,
      m_Sessions              |-> EmptyMap,
      nodedb                  |-> {},
      m_Worker                |-> << >>,
      m_Keyfile               |-> "",
      m_Identity              |-> "generated",
      m_OnInit                |-> << >>,
      hung                    |-> FALSE,
      seqReturned             |-> [tag \in ConvoTags |-> << >>],
      ev                      |-> NewEv("none") ]

\* the endpoint is in state s
Is(s) ==
    /\ now = s.now
    /\ m_CurrentPublishTX = s.m_CurrentPublishTX
    /\ m_LastPublish = s.m_LastPublish
    /\ m_LastPublishAttempt = s.m_LastPublishAttempt
    /\ m_IntroSet = s.m_IntroSet
    /\ m_Paths = s.m_Paths
    /\ m_PendingLookups = s.m_PendingLookups
    /\ m_PendingRouters = s.m_PendingRouters
    /\ m_PendingServiceLookups = s.m_PendingServiceLookups
    /\ m_RemoteSessions = s.m_RemoteSessions
    /\ m_PrefetchAddrs = s.m_PrefetchAddrs
    /\ m_PrefetchTags = s.m_PrefetchTags
    /\ m_PrefetchedTags = s.m_PrefetchedTags
    /\ m_Sessions = s.m_Sessions
    /\ nodedb = s.nodedb
    /\ m_Worker = s.m_Worker
    /\ m_Keyfile = s.m_Keyfile
    /\ m_Identity = s.m_Identity
    /\ m_OnInit = s.m_OnInit
    /\ hung = s.hung
    /\ seqReturned = s.seqReturned
    /\ ev = s.ev

\* the running endpoint after a lookup for the service s2 has resolved:
\* PutNewOutboundContext has made the context of s2, whose introset has two
\* introductions
InitWithContext ==
    Is([PutNewOutboundContext(Running, IntroSetOrder[6], TRUE)
           EXCEPT !.ev = NewEv("none")])

\* sending: paths of the context get built, data is sent over the context,
\* the handshake jobs run on the worker pool and complete on the logic thread
NextHandshake ==
    \/ ContextPathBuilt
    \/ CallAsyncEncryptAndSendTo
    \/ WorkerRuns
    \/ ResultRuns

SpecHandshake == InitWithContext /\ [][NextHandshake]_vars

\* starting: the options are set, initializers are deferred, and Start is
\* called, again after it has failed
NextStart ==
    \/ SetOptionKeyfile
    \/ SetOptionNetNS
    \/ DeferInitializer
    \/ CallStart

SpecStart == Init /\ [][NextStart]_vars

\* the session cache
NextSession ==
    \/ PutSession
    \/ CallGetSeqNoForConvo

SpecSession == Init /\ [][NextSession]_vars

-----------------------------------------------------------------------------
(* The claims *)

\* the last element of a non-empty sequence
Last(q) == q[Len(q)]

\* C1: at most one publish is in flight.  m_CurrentPublishTX is 0 or the txid
\* of the PublishIntroMessage sent last: it takes a non-zero value only in a
\* step that sends a PublishIntroMessage with that txid, and keeps it only
\* while no other is sent; and a PublishIntroMessage is sent only when no
\* earlier one is outstanding (m_CurrentPublishTX is 0, or Tick has reset it
\* because the retry interval has passed).
C1_OnePublishInFlight ==
    [][ /\ m_CurrentPublishTX' # 0 =>
              IF ev'.pubSent # << >>
              THEN m_CurrentPublishTX' = Last(ev'.pubSent)
              ELSE m_CurrentPublishTX' = m_CurrentPublishTX
        /\ ev'.pubSent # << >> =>
              /\ Len(ev'.pubSent) = 1
              /\ \/ m_CurrentPublishTX = 0
                 \/ USub(now, m_LastPublishAttempt) >= INTROSET_PUBLISH_RETRY_INTERVAL
      ]_vars

\* the GotIntroMessages that carry the txid m_CurrentPublishTX: their
\* introsets are the endpoint's own and one of another service, each with a
\* good and with a bad signature
ConfirmationMessages ==
    MessagesOf({m_CurrentPublishTX},
               {IntroSetOrder[1], IntroSetOrder[2], IntroSetOrder[3], IntroSetOrder[5]})

\* the state in which HandleGotIntroMessage(msg) leaves the endpoint
AfterGotIntro(msg) == HandleGotIntroMessage(Enter("HandleGotIntroMessage"), msg, TRUE)

\* the k-th introset of msg is the endpoint's own
OwnAt(msg, k) == msg.I[k].A = Self

\* HandleGotIntroMessage has performed IntroSetPublished
DidIntroSetPublished(s) ==
    /\ s.m_CurrentPublishTX = 0
    /\ s.m_LastPublish = s.now
    /\ s.m_LastPublishAttempt = m_LastPublishAttempt
    /\ s.ev.ret

\* HandleGotIntroMessage has performed IntroSetPublishFail
DidIntroSetPublishFail(s) ==
    /\ s.m_CurrentPublishTX = 0
    /\ s.m_LastPublishAttempt = m_LastPublishAttempt
    /\ s.m_LastPublish = m_LastPublish
    /\ ~s.ev.ret

C8_SeqNoCountsUp ==
    \A tag \in ConvoTags :
        \A i \in 1 .. Len(seqReturned[tag]) : seqReturned[tag][i] = i

\* C8: MaxSeq numbers were given out for c1, the last one just now, while the
\* sender, the introduction and the key of its session were put and c2 has a
\* session too
C8_Witness ==
    /\ ev.op = "GetSeqNoForConvo" /\ ev.msg.tag = "c1" /\ ev.ret = MaxSeq
    /\ Len(seqReturned["c1"]) = MaxSeq
    /\ "c1" \in DOMAIN m_Sessions /\ "c2" \in DOMAIN m_Sessions
    /\ m_Sessions["c1"].remote # NewSession.remote
    /\ m_Sessions["c1"].intro # NewSession.intro
    /\ m_Sessions["c1"].sharedKey # NewSession.sharedKey
    /\ Len(seqReturned["c2"]) > 0

\* the calls of hook h in a sequence of hook calls
CallsOf(hooks, h) == SelectSeq(hooks, LAMBDA c : c.hook = h)

\* the answers of HandleResponse for txid in a sequence of them
HandledFor(handled, txid) == SelectSeq(handled, LAMBDA c : c.txid = txid)

\* C2: every Tick removes each pending lookup that is timed out and invokes
\* its handler exactly once, with an empty set of introsets; also a Tick in
\* which the descriptors are due but cannot be signed or have no
\* introductions.
C2_TickExpiresLookups ==
    [][ ev'.op = "Tick" =>
          \A txid \in DOMAIN m_PendingLookups :
              IsTimedOut(m_PendingLookups[txid], now) =>
                  /\ txid \in DOMAIN m_PendingLookups' =>
                         m_PendingLookups'[txid] # m_PendingLookups[txid]
                  /\ HandledFor(ev'.handled, txid) = << [txid |-> txid, results |-> {}] >>
      ]_vars

\* C3: when a lookup that EnsurePathToService(addr, hook) has started times
\* out and Tick expires it, hook is invoked exactly once, with a null context,
\* and m_PendingServiceLookups has no entry for addr any more.
C3_TimeoutCallsHook ==
    [][ ev'.op = "Tick" =>
          \A txid \in DOMAIN m_PendingLookups :
              LET p == m_PendingLookups[txid]
              IN  ( /\ IsTimedOut(p, now)
                    /\ p.handler.fn = "OnOutboundLookup"
                    /\ p.remote \in DOMAIN m_PendingServiceLookups
                    /\ HandledFor(ev'.handled, txid) # << >> )
                  => /\ p.remote \notin DOMAIN m_PendingServiceLookups'
                     /\ CallsOf(ev'.hooks, m_PendingServiceLookups[p.remote])
                          = << [hook |-> m_PendingServiceLookups[p.remote],
                                ctx |-> NullCtx] >>
      ]_vars

\* a first request for remote: a path is established, there is no context
\* for remote and no lookup for it is pending
FirstRequest(remote) ==
    /\ HasEstablishedPath(m_Paths)
    /\ remote \notin DOMAIN m_RemoteSessions
    /\ remote \notin DOMAIN m_PendingServiceLookups

\* a duplicate request for remote: as before, but a lookup for it is pending
DuplicateRequest(remote) ==
    /\ HasEstablishedPath(m_Paths)
    /\ remote \notin DOMAIN m_RemoteSessions
    /\ remote \in DOMAIN m_PendingServiceLookups

\* the duplicate is refused and leaves no trace
DuplicateRefused ==
    ev'.op = "EnsurePathToService" /\ DuplicateRequest(ev'.msg.remote) =>
        /\ ~ev'.ret
        /\ m_PendingServiceLookups' = m_PendingServiceLookups
        /\ m_PendingLookups' = m_PendingLookups
        /\ ev'.hooks = << >> /\ ev'.sent = << >>

\* a lookup that resolves calls the hook registered for it, once, with the
\* new context, and no other hook
ResolutionCallsRegistered ==
    ev'.op = "HandleGotIntroMessage" =>
        \A remote \in DOMAIN m_PendingServiceLookups \ DOMAIN m_PendingServiceLookups' :
            /\ remote \in DOMAIN m_RemoteSessions'
            /\ ev'.hooks = << [hook |-> m_PendingServiceLookups[remote], ctx |-> remote] >>

\* C4 (as stated): a first EnsurePathToService(addr, h1) returns true and
\* registers h1; a second one for addr while the first is pending returns
\* false, registers and invokes no hook and sends no lookup; the resolution
\* invokes h1, the registered hook, exactly once and no other.
C4_FirstReturnsTrue ==
    [][ /\ ev'.op = "EnsurePathToService" /\ FirstRequest(ev'.msg.remote) =>
              /\ ev'.ret
              /\ m_PendingServiceLookups' =
                     Put(m_PendingServiceLookups, ev'.msg.remote, ev'.msg.hook)
        /\ DuplicateRefused
        /\ ResolutionCallsRegistered
      ]_vars

\* C4 (amended): a first EnsurePathToService(addr, h1) whose lookup the path
\* accepts returns true and registers h1; the rest as stated.
C4_FirstSentReturnsTrue ==
    [][ /\ ( /\ ev'.op = "EnsurePathToService" /\ FirstRequest(ev'.msg.remote)
              /\ ev'.sent # << >> ) =>
              /\ ev'.ret
              /\ m_PendingServiceLookups' =
                     Put(m_PendingServiceLookups, ev'.msg.remote, ev'.msg.hook)
        /\ DuplicateRefused
        /\ ResolutionCallsRegistered
      ]_vars

\* C4: the request with h2 for a service whose lookup, registered with h1, is
\* pending has been refused
C4_Witness ==
    /\ ev.op = "EnsurePathToService" /\ ~ev.ret
    /\ ev.msg.hook = "h2"
    /\ ev.msg.remote \in DOMAIN m_PendingServiceLookups
    /\ m_PendingServiceLookups[ev.msg.remote] = "h1"
    /\ ev.msg.remote \notin DOMAIN m_RemoteSessions
    /\ \E txid \in DOMAIN m_PendingLookups :
          m_PendingLookups[txid].remote = ev.msg.remote

\* the GotIntroMessages that answer a pending lookup: their introsets are the
\* endpoint's own, a well and a badly signed one of s1, and one of s2
LookupAnswers ==
    MessagesOf(DOMAIN m_PendingLookups,
               {IntroSetOrder[1], IntroSetOrder[3], IntroSetOrder[5], IntroSetOrder[6]})

\* msg is the confirmation of a publish
IsConfirmation(msg) ==
    /\ msg.T = m_CurrentPublishTX
    /\ \E k \in 1 .. Len(msg.I) : OwnAt(msg, k)

\* the introsets of msg whose signatures verify
ValidIntroSets(msg) == {i \in Range(msg.I) : VerifySignature(i)}

\* HandleGotIntroMessage(msg) has handed results to the lookup pending on
\* msg.T, once, and has removed the lookup
Forwarded(s, msg, results) ==
    /\ s.ev.handled = << [txid |-> msg.T, results |-> results] >>
    /\ msg.T \notin DOMAIN s.m_PendingLookups
    /\ s.ev.ret

C9_SelectedIntroInCurrent ==
    \A addr \in DOMAIN m_RemoteSessions :
        LET c == m_RemoteSessions[addr]
        IN  c.selectedIntro # ClearIntro =>
                c.selectedIntro \in Range(c.currentIntroSet.I)

\* C10: the current introset of every context has passed VerifySignature.
C10_CurrentIntroSetVerified ==
    \A addr \in DOMAIN m_RemoteSessions :
        VerifySignature(m_RemoteSessions[addr].currentIntroSet)

\* C10: OnIntroSetUpdate has replaced the introset a context was created with
C10_Witness ==
    /\ ev.op = "HandleGotIntroMessage" /\ ev.msg.way = "forwarded"
    /\ \E addr \in DOMAIN m_RemoteSessions :
          LET c == m_RemoteSessions[addr]
          IN  /\ c.currentIntroSet = IntroSetOrder[4]
              /\ VerifySignature(c.currentIntroSet)

\* the lookup pending on txid is a context's refresh (UpdateIntroSet), and ctx
\* is that context
IsRefreshOf(txid, ctx) ==
    /\ txid \in DOMAIN m_PendingLookups
    /\ m_PendingLookups[txid].handler = [fn |-> "OnIntroSetUpdate", ctx |-> ctx]

\* C11: monotone introset refresh.  In every step the current introset of a
\* context either stays or is replaced by a strictly newer one; and a step in
\* which OnIntroSetUpdate is called with null (an answer without exactly one
\* introset, or a timeout) or with an introset that is not newer than the
\* current one leaves the current introset as it is.
C11_MonotoneRefresh ==
    [][ \A addr \in DOMAIN m_RemoteSessions :
          /\ addr \in DOMAIN m_RemoteSessions'
          /\ LET cur == m_RemoteSessions[addr].currentIntroSet
                 nxt == m_RemoteSessions'[addr].currentIntroSet
             IN  /\ nxt # cur => IsNewerThan(nxt, cur)
                 /\ \A k \in 1 .. Len(ev'.handled) :
                       LET h == ev'.handled[k]
                       IN  ( /\ IsRefreshOf(h.txid, addr)
                             /\ \/ Cardinality(h.results) # 1
                                \/ \E i \in h.results : ~IsNewerThan(i, cur) )
                           => nxt = cur
      ]_vars

\* C11: a context whose introset was signed at time 2 has been handed, as the
\* answer to its refresh, the introset signed at time 1, and has kept its own
C11_Witness ==
    /\ ev.op = "HandleGotIntroMessage" /\ ev.msg.way = "forwarded"
    /\ ev.hooks = << >>
    /\ Len(ev.handled) = 1
    /\ ev.handled[1].results = {IntroSetOrder[3]}
    /\ Addr("s1") \in DOMAIN m_RemoteSessions
    /\ m_RemoteSessions[Addr("s1")].currentIntroSet = IntroSetOrder[4]

\* C12: a publish retry is not issued early.  Once a PublishIntroMessage has
\* been sent (m_LastPublishAttempt is the time it was sent at), a Tick sends a
\* PublishIntroMessage only when now - m_LastPublishAttempt is at least
\* INTROSET_PUBLISH_RETRY_INTERVAL, whether the earlier publish is still
\* outstanding or has failed through IntroSetPublishFail.
C12_NoEarlyRetry ==
    [][ ( /\ ev'.op = "Tick"
          /\ m_LastPublishAttempt # 0
          /\ ev'.pubSent # << >> )
        => USub(now, m_LastPublishAttempt) >= INTROSET_PUBLISH_RETRY_INTERVAL
      ]_vars

\* the endpoint has a path established and has not yet sent or confirmed a
\* publish
ColdStart ==
    /\ HasEstablishedPath(m_Paths)
    /\ m_CurrentPublishTX = 0
    /\ m_LastPublish = 0
    /\ m_LastPublishAttempt = 0

\* what the environment decides in one Tick: the txid drawn for the publish,
\* whether the introset gets signed, whether the path accepts the message
TickInputs == [ptx : TxIds, signOk : BOOLEAN, sendOk : BOOLEAN]

\* the endpoint after Tick(t) in state s, the clock being at t
TickAt(s, t, in) ==
    Tick([s EXCEPT !.now = t, !.ev = NewEv("Tick")], t, in.ptx, 1, in.signOk, in.sendOk)

\* the confirmation of the publish with txid X: the DHT returns the
\* endpoint's introset as it was signed
ConfirmationOf(s, X) == [T |-> X, I |-> << s.m_IntroSet >>]

\* the endpoint after the confirmation of the publish with txid X
Confirmed(s, X) ==
    HandleGotIntroMessage([s EXCEPT !.ev = NewEv("HandleGotIntroMessage")],
                          ConfirmationOf(s, X), TRUE)

\* the times from t on that are less than the retry interval after t
WithinRetry(t) ==
    {u \in Times : u >= t /\ USub(u, t) < INTROSET_PUBLISH_RETRY_INTERVAL}

\* a Tick that has called PublishIntroSet has done so with introductions
PublishedNonEmpty(s) == s.ev.pubTried > 0 => Len(s.m_IntroSet.I) > 0

TickRunsThrough(s, t, in) ==
    ~TickPublish(TickResetTX(s, t), t, in.ptx, in.signOk, in.sendOk).returned

\* the current introset of the context under addr has had an expired
\* introduction for at least the window OutboundContext::Tick works with
ExpiredBeyondGrace(addr) ==
    \E k \in 1 .. Len(m_RemoteSessions[addr].currentIntroSet.I) :
        LET e == m_RemoteSessions[addr].currentIntroSet.I[k].expiresAt
        IN  now >= e /\ USub(now, e) >= INTRO_EXPIRY_WINDOW

\* a refresh of the context under addr has gone unanswered until its deadline
RefreshTimedOut(addr) ==
    \E txid \in DOMAIN m_PendingLookups :
        IsRefreshOf(txid, addr) /\ IsTimedOut(m_PendingLookups[txid], now)

\* C14: a context whose current introset has expired introductions, and
\* whose refresh has failed for longer than the grace window, is dropped by
\* the Tick that observes it: after every Tick that reaches the loop over the
\* remote sessions the context is no longer in m_RemoteSessions.
C14_ExpiredContextDropped ==
    \A addr \in DOMAIN m_RemoteSessions :
        (ExpiredBeyondGrace(addr) /\ RefreshTimedOut(addr)) =>
            \A in \in TickInputs :
                TickRunsThrough(State, now, in) =>
                    addr \notin DOMAIN TickAt(State, now, in).m_RemoteSessions

\* the introsets in the answers to the lookups for two services: a well
\* signed one of each
ContextIntroSets == {IntroSetOrder[3], IntroSetOrder[6]}

\* contexts: callers and the prefetch ask for paths to two services, whose
\* lookups the DHT answers, possibly with the introset of the other service;
\* the clock stands still
NextContexts ==
    \/ SetOptionPrefetchAddr
    \/ DoTick
    \/ GotIntro(ContextIntroSets)
    \/ CallEnsurePathToService(RemoteAddrs)

SpecContexts == InitRunning /\ [][NextContexts]_vars

\* the endpoint after PutNewOutboundContext(introset) in state s
AfterPutNew(s, introset, sendOk) ==
    PutNewOutboundContext([s EXCEPT !.ev = NewEv("PutNewOutboundContext")],
                          introset, sendOk)

\* C15: PutNewOutboundContext is idempotent per address.  When a context for
\* introset.A.Addr() exists the call changes nothing and fires no hook; when
\* none exists it adds one context, under that address, leaves the others as
\* they are, removes the pending entry of the address and fires the hook
\* registered there, once (and no hook when none is registered); and a second
\* call with the same introset changes nothing any more.
C15_PutNewIdempotent ==
    \A introset \in ContextIntroSets, sendOk \in BOOLEAN :
        LET addr == Addr(introset.A)
            s0 == Enter("PutNewOutboundContext")
            s1 == AfterPutNew(s0, introset, sendOk)
            s2 == AfterPutNew(s1, introset, sendOk)
        IN  /\ addr \in DOMAIN m_RemoteSessions => s1 = s0
            /\ addr \notin DOMAIN m_RemoteSessions =>
                  /\ DOMAIN s1.m_RemoteSessions = DOMAIN m_RemoteSessions \cup {addr}
                  /\ \A a \in DOMAIN m_RemoteSessions :
                        s1.m_RemoteSessions[a] = m_RemoteSessions[a]
                  /\ s1.m_RemoteSessions[addr].currentIntroSet = introset
                  /\ s1.m_PendingServiceLookups =
                        [a \in DOMAIN m_PendingServiceLookups \ {addr} |->
                            m_PendingServiceLookups[a]]
                  /\ s1.ev.hooks =
                        IF addr \in DOMAIN m_PendingServiceLookups
                        THEN << [hook |-> m_PendingServiceLookups[addr], ctx |-> addr] >>
                        ELSE << >>
            /\ s2 = [s1 EXCEPT !.ev = NewEv("PutNewOutboundContext")]

\* C15: the lookup for the service s2 has been answered with the introset of
\* s1, for which a context exists (its refresh is under way):
\* PutNewOutboundContext has left the context and the pending entry of s2
\* alone and has fired no hook
C15_Witness ==
    /\ ev.op = "HandleGotIntroMessage" /\ ev.msg.way = "forwarded"
    /\ ev.msg.fn = "OnOutboundLookup"
    /\ Len(ev.handled) = 1 /\ ev.handled[1].results = {IntroSetOrder[3]}
    /\ ev.hooks = << >>
    /\ Addr("s1") \in DOMAIN m_RemoteSessions
    /\ \E txid \in DOMAIN m_PendingLookups : IsRefreshOf(txid, Addr("s1"))
    /\ Addr("s2") \in DOMAIN m_PendingServiceLookups

\* sessions in use: callers ask for paths to two services, with and without
\* a session, while the endpoint's path lives and after it has expired
NextReuse ==
    \/ AdvanceClock
    \/ ExpirePaths
    \/ GotIntro(ContextIntroSets)
    \/ CallEnsurePathToService(RemoteAddrs)

SpecReuse == InitRunning /\ [][NextReuse]_vars

\* EnsurePathToService has served the request from the existing session: the
\* hook was invoked once, with the context of the remote, the call succeeded,
\* nothing was registered and nothing sent
ServedFromSession ==
    /\ ev'.hooks = << [hook |-> ev'.msg.hook, ctx |-> ev'.msg.remote] >>
    /\ ev'.ret
    /\ m_PendingServiceLookups' = m_PendingServiceLookups
    /\ m_PendingLookups' = m_PendingLookups
    /\ m_RemoteSessions' = m_RemoteSessions
    /\ ev'.sent = << >>

\* C16 (as stated): EnsurePathToService(remote, hook) when a RemoteSession
\* for remote exists invokes hook exactly once, with the existing context,
\* returns true, adds no entry to m_PendingServiceLookups or
\* m_PendingLookups and sends no lookup.
C16_SessionReused ==
    [][ ( /\ ev'.op = "EnsurePathToService"
          /\ ev'.msg.remote \in DOMAIN m_RemoteSessions )
        => ServedFromSession
      ]_vars

\* C16 (amended): the same, when the endpoint has an established path.
C16_SessionReusedOnPath ==
    [][ ( /\ ev'.op = "EnsurePathToService"
          /\ ev'.msg.remote \in DOMAIN m_RemoteSessions
          /\ HasEstablishedPath(m_Paths) )
        => ServedFromSession
      ]_vars

\* C16: a request for a service that has a session has been served with the
\* session's context, while the lookup for the other service is pending
C16_Witness ==
    /\ ev.op = "EnsurePathToService" /\ ev.ret
    /\ ev.msg.remote \in DOMAIN m_RemoteSessions
    /\ ev.hooks = << [hook |-> ev.msg.hook, ctx |-> ev.msg.remote] >>
    /\ ev.sent = << >>
    /\ DOMAIN m_PendingServiceLookups # {}
    /\ ev.msg.remote \notin DOMAIN m_PendingServiceLookups

\* some lookup for the service at addr was handed to a path
SentLookupFor(s, addr) == \E k \in 1 .. Len(s.ev.sent) : s.ev.sent[k].remote = addr

\* C17: a transient send failure is recovered by the Tick retry.  For a
\* prefetch address without session and without pending lookup: when the Tick
\* that asks for the path fails because the path rejects the lookup message,
\* a later Tick in which the path accepts the send issues the lookup.
C17_RetryAfterSendFailure ==
    \A addr \in m_PrefetchAddrs :
        FirstRequest(addr) =>
            \A in1 \in TickInputs, in2 \in TickInputs : \A t2 \in now .. MaxTime :
                LET s1 == TickAt(State, now, in1)
                    s2 == TickAt(s1, t2, in2)
                IN  ( /\ ~in1.sendOk /\ TickRunsThrough(State, now, in1)
                      /\ in2.sendOk /\ TickRunsThrough(s1, t2, in2)
                      /\ HasEstablishedPath(s1.m_Paths) )
                    => SentLookupFor(s2, addr)

\* the first n elements of a sequence
Prefix(q, n) == SubSeq(q, 1, n)

\* C18: Endpoint::Start loads (with a keyfile) or generates (without) the
\* identity first; when the load fails it returns false and runs no
\* initializer.  Otherwise it runs the deferred initializers in the order of
\* the queue, stops at the first that fails and returns false, leaving that
\* one and all later ones queued and not run; and it returns true only when
\* every initializer has succeeded and the queue is empty.
C18_StartRunsInitializersInOrder ==
    [][ ev'.op = "Start" =>
          LET ran == ev'.msg.ran
              ok == ev'.msg.ok
              n == Len(ran)
          IN  /\ ev'.msg.keys = (IF m_Keyfile = "" THEN "generated"
                                 ELSE IF ev'.msg.keys = "failed" THEN "failed"
                                 ELSE "loaded")
              /\ ev'.msg.keys = "failed" =>
                    /\ ~ev'.ret
                    /\ ran = << >>
                    /\ m_OnInit' = m_OnInit
                    /\ m_Identity' = m_Identity
              /\ ev'.msg.keys # "failed" =>
                    /\ m_Identity' = ev'.msg.keys
                    /\ n <= Len(m_OnInit) /\ ran = Prefix(m_OnInit, n)
                    /\ \A k \in 1 .. n - 1 : ok[k]
                    /\ ev'.ret =>
                          /\ n = Len(m_OnInit)
                          /\ \A k \in 1 .. n : ok[k]
                          /\ m_OnInit' = << >>
                    /\ ~ev'.ret =>
                          /\ n > 0 /\ ~ok[n]
                          /\ m_OnInit' = SubSeq(m_OnInit, n, Len(m_OnInit))
      ]_vars

\* C18: Start has failed at the second of three initializers, which stays
\* queued together with the third
C18_Witness ==
    /\ ev.op = "Start" /\ ~ev.ret
    /\ ev.msg.keys = "loaded"
    /\ Len(ev.msg.ran) = 2 /\ ev.msg.ok = << TRUE, FALSE >>
    /\ Len(m_OnInit) = 2
    /\ m_OnInit[1] = ev.msg.ran[2]

\* the context under addr is established: the Result callback of one of its
\* handshake jobs has run, which has put a session for the context's service
\* into the session cache
HandshakeDone(addr) ==
    \E tag \in DOMAIN m_Sessions :
        m_Sessions[tag].remote = m_RemoteSessions[addr].currentIntroSet.A

\* C19: handshake, then established.  AsyncEncryptAndSendTo starts the
\* first-frame handshake (AsyncGenIntro) only while sequenceNo is 0; and once
\* the Result callback of a handshake job of the context has run, every
\* AsyncEncryptAndSendTo that has a path goes through EncryptAndSendTo and
\* queues no further handshake job.
C19_HandshakeOnce ==
    [][ ev'.op = "AsyncEncryptAndSendTo" =>
          LET addr == ev'.msg.ctx
          IN  /\ Len(m_Worker') > Len(m_Worker) =>
                    /\ ev'.msg.went = "AsyncGenIntro"
                    /\ m_RemoteSessions[addr].sequenceNo = 0
              /\ (HandshakeDone(addr) /\ ev'.msg.went # "no path") =>
                    /\ ev'.msg.went = "EncryptAndSendTo"
                    /\ m_Worker' = m_Worker
      ]_vars

-----------------------------------------------------------------------------
(* OutboundContext::ShiftIntroduction *)

\* intro is an introduction of I that none of I outlives
Greatest(I, intro) ==
    \E k \in 1 .. Len(I) :
        /\ I[k] = intro
        /\ \A j \in 1 .. Len(I) : I[j].expiresAt <= intro.expiresAt

\* router needs no lookup, or one is under way
KnownOrLookedUp(s, router) ==
    router \in s.nodedb \/ router \in DOMAIN s.m_PendingRouters

\* the state ShiftIntroduction leaves when called on addr in state pre, the
\* path accepting what it is asked to send
AfterShift(pre, addr) ==
    LET post == ShiftIntroduction(pre, addr, TRUE)
        ctx == post.m_RemoteSessions[addr]
    IN  /\ Greatest(ctx.currentIntroSet.I, ctx.selectedIntro)
        /\ HasEstablishedPath(pre.m_Paths) =>
               KnownOrLookedUp(post, ctx.selectedIntro.router)
        /\ post.ev.rebuilds = Append(pre.ev.rebuilds, [ctx |-> addr, n |-> 2])

\* the state in which the constructor of a context for introset calls
\* ShiftIntroduction: nothing selected yet
Constructing(introset) ==
    [State EXCEPT !.m_RemoteSessions =
        Put(@, Addr(introset.A),
            [ currentIntroSet |-> introset,
              selectedIntro   |-> ClearIntro,
              sequenceNo      |-> 0,
              sharedKey       |-> "zero",
              paths           |-> {} ])]

\* an introset a service publishes after the path behind its latest
\* introduction is gone: newer, and expiring sooner
RepublishedBy(si) ==
    [A |-> si, I |-> << [router |-> "r1", pathID |-> 1, expiresAt |-> Clock0 + 1] >>,
     T |-> 3, sig |-> TRUE]

\* C20: whenever ShiftIntroduction runs on a context whose introset has
\* introductions (from Send on an existing context, from the constructor of a
\* new one, or after OnIntroSetUpdate took a newer introset), it leaves
\* selectedIntro the introduction of currentIntroSet.I with the greatest
\* expiresAt, the selected introduction's router known or being looked up,
\* and a rebuild of the context's paths requested
C20_ShiftSelectsLatest ==
    /\ \A addr \in DOMAIN m_RemoteSessions :
           Len(m_RemoteSessions[addr].currentIntroSet.I) > 0 =>
               /\ AfterShift(State, addr)
               /\ AfterShift(OnIntroSetUpdate(State, addr,
                      RepublishedBy(m_RemoteSessions[addr].currentIntroSet.A)), addr)
    /\ \A introset \in ContextIntroSets :
           Addr(introset.A) \notin DOMAIN m_RemoteSessions =>
               AfterShift(Constructing(introset), Addr(introset.A))

-----------------------------------------------------------------------------
(* The first-frame handshake job *)

\* C21: when the KEM encapsulation or the DH key exchange has failed in
\* AsyncIntroGen::Work, the first frame is aborted: Work posts no completion
\* job (the job is gone from the queues), and no Result runs for such a job,
\* so nothing is recorded in the session cache for its tag and no frame is
\* handed to Send
C21_FailedHandshakeAborts ==
    [][ /\ (ev'.op = "AsyncIntroGen::Work" /\ ~(ev'.msg.kem /\ ev'.msg.dh)) =>
              /\ ~ev'.msg.posted
              /\ Len(m_Worker') < Len(m_Worker)
              /\ m_Sessions' = m_Sessions
        /\ ev'.op = "AsyncIntroGen::Result" =>
              (ev'.msg.kem /\ ev'.msg.dh)
      ]_vars

\* C22: AsyncIntroGen::Work, run by a worker thread, writes no state owned by
\* the endpoint or by a context: it leaves the session cache and every field of
\* every context (its sharedKey included) as they are, such state being
\* written by Result on the logic thread only; so the sharedKey of a context
\* is never written by two threads at a time
C22_WorkerWritesNothingShared ==
    [][ /\ ev'.op = "AsyncIntroGen::Work" =>
              /\ m_RemoteSessions' = m_RemoteSessions
              /\ m_Sessions' = m_Sessions
        /\ \A addr \in DOMAIN m_RemoteSessions' :
              m_RemoteSessions'[addr].sharedKey # TornKey
      ]_vars

-----------------------------------------------------------------------------
(* Transaction ids *)

\* lookups of all kinds: prefetch tags are set, callers ask for paths, Tick
\* looks the tags up and refreshes the introsets of the contexts, and the
\* answers arrive
NextTxids ==
    \/ SetOptionPrefetchTag
    \/ DoTick
    \/ GotIntro(ContextIntroSets)
    \/ CallEnsurePathToService({Addr("s1")})

SpecTxids == InitRunning /\ [][NextTxids]_vars

\* a handler run in state pre has left state post: every lookup request it has
\* sent went out under a txid that was free in pre and is now the key of the
\* lookup it was sent for, which knows its txid
RegisteredAll(pre, post) ==
    \A k \in DOMAIN post.ev.sent :
        LET x == post.ev.sent[k]
        IN  /\ x.txid \notin DOMAIN pre.m_PendingLookups
            /\ x.txid \in DOMAIN post.m_PendingLookups
            /\ post.m_PendingLookups[x.txid].txid = x.txid
            /\ post.m_PendingLookups[x.txid].remote = x.remote
            /\ post.m_PendingLookups[x.txid].created = pre.now

\* as many lookups are pending in post as in pre, and n more
Registered(pre, post, n) ==
    /\ DOMAIN pre.m_PendingLookups \subseteq DOMAIN post.m_PendingLookups
    /\ Cardinality(DOMAIN post.m_PendingLookups) =
           Cardinality(DOMAIN pre.m_PendingLookups) + n
    /\ RegisteredAll(pre, post)

\* C23: transaction ids of pending lookups are unique.  Every pending lookup
\* is kept under its own txid; whatever llarp_randint() gives, GenTXID returns
\* a txid that is no key of m_PendingLookups, and PutLookup with it adds the
\* lookup; and neither EnsurePathToService nor UpdateIntroSet nor a tag
\* lookup, wherever they start one, loses the lookup to a txid that is taken
C23_TxidsUnique ==
    LET pre == Enter("GenTXID")
    IN  /\ \A txid \in DOMAIN m_PendingLookups : m_PendingLookups[txid].txid = txid
        /\ \A r \in TxIds :
              /\ GenTXID(pre, r) \notin DOMAIN m_PendingLookups
              /\ GenTXID(pre, r) \in
                     DOMAIN NewLookup(pre, "HSLookup",
                                      [fn |-> "OnOutboundLookup", ctx |-> NullCtx],
                                      Addr("s1"), GenTXID(pre, r)).m_PendingLookups
              /\ \A remote \in RemoteAddrs :
                    LET post == EnsurePathToService(pre, remote, "h1", r, TRUE)
                    IN  Registered(pre, post,
                            IF /\ HasEstablishedPath(m_Paths)
                               /\ remote \notin DOMAIN m_RemoteSessions
                               /\ remote \notin DOMAIN m_PendingServiceLookups
                            THEN 1 ELSE 0)
              /\ \A addr \in DOMAIN m_RemoteSessions :
                    Registered(pre, UpdateIntroSet(pre, addr, r, TRUE),
                               IF HasEstablishedPath(m_Paths) THEN 1 ELSE 0)
              /\ \A tag \in DOMAIN m_PrefetchedTags :
                    Registered(pre, TagLookupJob(pre, tag, r, TRUE), 1)

\* a lookup has been sent under a txid other than the value drawn for it, the
\* drawn value being the txid of another pending lookup
C23_Witness ==
    \E k \in DOMAIN ev.sent, r \in TxDraws :
        /\ ev.sent[k].txid # r
        /\ ev.sent[k].txid \in DOMAIN m_PendingLookups
        /\ r \in DOMAIN m_PendingLookups
        /\ m_PendingLookups[r].txid = r
        /\ Cardinality(DOMAIN m_PendingLookups) >= 2

-----------------------------------------------------------------------------
(* Path sets *)

\* the paths of a path set that are building or established
NumLive(paths) == NumInStatus(paths, "established") + NumInStatus(paths, "building")

\* PathSet::ShouldBuildMore of the path set of a context, whose paths are all
\* established
CtxShouldBuildMore(ctx) == Cardinality(ctx.paths) < NumPaths

\* C24: no path set, the endpoint's own or a context's, holds more than
\* numPaths paths that are building or established; ShouldBuildMore() is true
\* exactly while it holds fewer; and path builds are requested only while
\* ShouldBuildMore() holds: the endpoint gets a path to build only when it was
\* below numPaths, and a rebuild of the paths of a context is requested
\* (by Tick, ShiftIntroduction or Send) only when the context was
C24_BuildsOnlyWhenWanted ==
    [][ /\ NumLive(m_Paths') <= NumPaths
        /\ ShouldBuildMore(m_Paths') <=> NumLive(m_Paths') < NumPaths
        /\ NumInStatus(m_Paths', "building") > NumInStatus(m_Paths, "building") =>
               ShouldBuildMore(m_Paths)
        /\ \A addr \in DOMAIN m_RemoteSessions' :
               Cardinality(m_RemoteSessions'[addr].paths) <= NumPaths
        /\ \A k \in DOMAIN ev'.rebuilds :
               CtxShouldBuildMore(m_RemoteSessions'[ev'.rebuilds[k].ctx])
      ]_vars

-----------------------------------------------------------------------------
(* The session cache *)

\* C25: GetConvoTagsForService terminates whatever the session cache holds:
\* called in any state the endpoint reaches it returns, and so does
\* EncryptAndSendTo, which calls it for the service of its context
C25_ConvoTagScanTerminates ==
    /\ GetConvoTagsForServiceReturns(State)
    /\ \A addr \in DOMAIN m_RemoteSessions : ~EncryptAndSendTo(State, addr).hung

-----------------------------------------------------------------------------
(* OutboundContext::Tick *)

\* between pre and post a lookup of the introset of the context addr was
\* registered
IntroSetLookupIssued(pre, post, addr) ==
    \E txid \in DOMAIN post.m_PendingLookups :
        /\ txid \notin DOMAIN pre.m_PendingLookups
        /\ post.m_PendingLookups[txid].handler = [fn |-> "OnIntroSetUpdate", ctx |-> addr]

\* the state OutboundContext::Tick(now) leaves for the context addr, the
\* endpoint's path taking what it is asked to send
AfterContextTick(addr) ==
    OutboundContextTick(Enter("Tick"), addr, now, CHOOSE r \in TxDraws : TRUE, TRUE)

\* C26: while the endpoint has an established path, OutboundContext::Tick(now)
\* issues UpdateIntroSet exactly when the selected introduction has expired or
\* expires within INTRO_EXPIRY_WINDOW (30 s), so not when it has more than that
\* left to live; and it always leaves the router of the selected introduction
\* known or being looked up
C26_TickRefreshesNearExpiry ==
    \A addr \in DOMAIN m_RemoteSessions :
        HasEstablishedPath(m_Paths) =>
            LET sel == m_RemoteSessions[addr].selectedIntro
                post == AfterContextTick(addr)
            IN  /\ IntroSetLookupIssued(State, post, addr) <=>
                       \/ sel.expiresAt <= now
                       \/ sel.expiresAt - now < INTRO_EXPIRY_WINDOW
                /\ KnownOrLookedUp(post, sel.router)

\* the predicate of OutboundContext::Tick holds for the selected introduction
\* of every context at time t, and a Tick at t issues UpdateIntroSet
TickTriggers(addr, t) ==
    LET pre == [Enter("Tick") EXCEPT !.now = t]
        post == OutboundContextTick(pre, addr, t, CHOOSE r \in TxDraws : TRUE, TRUE)
    IN  /\ TickShouldUpdate(m_RemoteSessions[addr].selectedIntro, t)
        /\ HasEstablishedPath(m_Paths) => IntroSetLookupIssued(pre, post, addr)

\* C27 as stated: the expiry predicate of OutboundContext::Tick, on unsigned
\* times, is true for every pair (expiresAt, now), so every Tick of a context
\* issues UpdateIntroSet
C27_PredicateAlwaysTriggers ==
    \A addr \in DOMAIN m_RemoteSessions : \A t \in Times : TickTriggers(addr, t)

\* C27, corrected: the expiry predicate of OutboundContext::Tick, on unsigned
\* times, is true exactly when the selected introduction has not expired yet
\* (expiresAt >= now) or has expired so long ago that expiresAt - now wraps
\* below the window (now - expiresAt > 2^64 - 30000); a Tick of a context
\* issues UpdateIntroSet then and only then, so not for an introduction that
\* expired less than that ago
C27_PredicateTriggersUnlessExpired ==
    \A addr \in DOMAIN m_RemoteSessions : \A t \in Times :
        LET e == m_RemoteSessions[addr].selectedIntro.expiresAt
            pre == [Enter("Tick") EXCEPT !.now = t]
            post == OutboundContextTick(pre, addr, t, CHOOSE r \in TxDraws : TRUE, TRUE)
        IN  /\ TickShouldUpdate(m_RemoteSessions[addr].selectedIntro, t) <=>
                   (e >= t \/ t - e > UMod - INTRO_EXPIRY_WINDOW)
            /\ HasEstablishedPath(m_Paths) =>
                   (IntroSetLookupIssued(pre, post, addr) <=>
                        (e >= t \/ t - e > UMod - INTRO_EXPIRY_WINDOW))

\* a context whose selected introduction has expired is ticked by Endpoint::Tick
\* with a path established: the tick has started the lookup of the router of
\* the introduction, and no lookup of the introset of the context is pending
C27_Witness ==
    /\ ev.op = "Tick"
    /\ HasEstablishedPath(m_Paths)
    /\ \E addr \in DOMAIN m_RemoteSessions :
          /\ m_RemoteSessions[addr].selectedIntro.expiresAt < now
          /\ m_RemoteSessions[addr].selectedIntro.router \in DOMAIN m_PendingRouters
          /\ m_PendingRouters[m_RemoteSessions[addr].selectedIntro.router].started = now
          /\ ~\E txid \in DOMAIN m_PendingLookups :
                 m_PendingLookups[txid].handler = [fn |-> "OnIntroSetUpdate", ctx |-> addr]

\* the endpoint at time t about to run a handler op
At(op, t) == [Enter(op) EXCEPT !.now = t]

\* the sessions of post are those of pre: none is gone, and none but that of
\* tag is new or changed
OthersKept(pre, post, tag) ==
    /\ DOMAIN post.m_Sessions = DOMAIN pre.m_Sessions \cup {tag}
    /\ \A other \in DOMAIN pre.m_Sessions :
           other # tag => post.m_Sessions[other] = pre.m_Sessions[other]

\* the session tag had before a Put, an empty one if it had none
Before(pre, tag) == FindOrInsert(pre.m_Sessions, tag)[tag]

\* no Get finds a session for a tag that has none, and GetSeqNoForConvo
\* creates none
GetsFindNothing(tag) ==
    /\ ~GetSenderFor(State, tag).found
    /\ ~GetIntroFor(State, tag).found
    /\ ~GetCachedSessionKeyFor(State, tag).found
    /\ GetSeqNoForConvo(Enter("GetSeqNoForConvo"), tag).m_Sessions = m_Sessions

\* the three Puts of a value into the session of tag at time t: the state
\* before, the state after, what the matching Get gives after, and the session
\* of tag as it was but for the field put
PutCases(tag, t) ==
    { [pre |-> At("PutSenderFor", t),
       post |-> PutSenderFor(At("PutSenderFor", t), tag, info),
       got |-> GetSenderFor(PutSenderFor(At("PutSenderFor", t), tag, info), tag),
       put |-> info,
       want |-> [Before(State, tag) EXCEPT !.remote = info]] : info \in {"s1", "s2"} }
    \cup
    { [pre |-> At("PutIntroFor", t),
       post |-> PutIntroFor(At("PutIntroFor", t), tag, intro),
       got |-> GetIntroFor(PutIntroFor(At("PutIntroFor", t), tag, intro), tag),
       put |-> intro,
       want |-> [Before(State, tag) EXCEPT !.intro = intro]] : intro \in RemoteIntros }
    \cup
    { [pre |-> At("PutCachedSessionKeyFor", t),
       post |-> PutCachedSessionKeyFor(At("PutCachedSessionKeyFor", t), tag, k),
       got |-> GetCachedSessionKeyFor(
                   PutCachedSessionKeyFor(At("PutCachedSessionKeyFor", t), tag, k), tag),
       put |-> k,
       want |-> [Before(State, tag) EXCEPT !.sharedKey = k]] : k \in SharedKeys }

\* what C28 says of the Gets and of removal
GetsAndRemoval(tag, t) ==
    /\ tag \notin DOMAIN m_Sessions => GetsFindNothing(tag)
    /\ DOMAIN m_Sessions \subseteq
           DOMAIN GetSeqNoForConvo(At("GetSeqNoForConvo", t), tag).m_Sessions

\* C28 as stated: after a Put of a field of tag the matching Get gives the
\* value put; the Put creates the session of tag when there is none and
\* otherwise leaves every other field of the session, and every other session,
\* as it was; a Get on a tag without a session returns false and creates
\* nothing; no session is ever removed
C28_PutLeavesOtherFields ==
    \A tag \in ConvoTags, t \in Times :
        /\ \A c \in PutCases(tag, t) :
              /\ c.got = [found |-> TRUE, value |-> c.put]
              /\ tag \in DOMAIN m_Sessions => c.post.m_Sessions[tag] = c.want
              /\ OthersKept(c.pre, c.post, tag)
        /\ GetsAndRemoval(tag, t)

\* C28, corrected: as above, except that a Put also stamps the session of tag:
\* it leaves lastUsed at the time of the call, and the fields other than the
\* one put and lastUsed (seqno among them) as they were
C28_PutLeavesOtherFieldsButLastUsed ==
    \A tag \in ConvoTags, t \in Times :
        /\ \A c \in PutCases(tag, t) :
              /\ c.got = [found |-> TRUE, value |-> c.put]
              /\ c.post.m_Sessions[tag] = [c.want EXCEPT !.lastUsed = t]
              /\ OthersKept(c.pre, c.post, tag)
        /\ GetsAndRemoval(tag, t)

\* an introduction has been put for a tag whose session already had a sender,
\* a key and a sequence number, while another tag has a session too
C28_Witness ==
    /\ ev.op = "PutIntroFor"
    /\ DOMAIN m_Sessions = ConvoTags
    /\ LET session == m_Sessions[ev.msg.tag]
       IN  /\ session.intro # ClearIntro
           /\ session.remote # "none"
           /\ session.sharedKey # "zero"
           /\ session.seqno > 0

-----------------------------------------------------------------------------
(* The identity of a context *)

\* C29: every context is kept under the address of the service whose introset
\* it holds.  No step leaves a context under addr with an introset of another
\* identity, whether it is the answer to a lookup or an OnIntroSetUpdate that
\* brings the introset, and the answer to a lookup issued for an address
\* creates no context under any other address
C29_ContextKeepsIdentity ==
    [][ /\ \A addr \in DOMAIN m_RemoteSessions' :
               Addr(m_RemoteSessions'[addr].currentIntroSet.A) = addr
        /\ \A k \in DOMAIN ev'.handled :
               LET lookup == m_PendingLookups[ev'.handled[k].txid]
               IN  lookup.name = "HSLookup" =>
                       (DOMAIN m_RemoteSessions') \ (DOMAIN m_RemoteSessions)
                           \subseteq {lookup.remote}
      ]_vars

-----------------------------------------------------------------------------
(* The session key of a handshake *)

\* C30: the session key AsyncIntroGen::Result records in the session cache
\* under the tag of its job is the key the Work of that job has derived,
\* however the Work and Result of several jobs of one context interleave
C30_ResultRecordsOwnKey ==
    [][ ev'.op = "AsyncIntroGen::Result" =>
            /\ ev'.msg.tag \in DOMAIN m_Sessions'
            /\ m_Sessions'[ev'.msg.tag].sharedKey = ev'.msg.key
      ]_vars

-----------------------------------------------------------------------------
(* OutboundContext::Send *)

\* C31: OutboundContext::Send shifts the introduction only when the selected
\* one has expired.  When a frame is handed to Send (by AsyncIntroGen::Result)
\* while selectedIntro.expiresAt > now, no ShiftIntroduction runs: no rebuild
\* of the paths of the context is requested and the selection stays
C31_SendShiftsOnlyWhenExpired ==
    [][ ev'.op = "AsyncIntroGen::Result" =>
            LET addr == ev'.msg.ctx
            IN  m_RemoteSessions[addr].selectedIntro.expiresAt > now =>
                    /\ ~SendShouldShift(m_RemoteSessions[addr].selectedIntro, now)
                    /\ ev'.rebuilds = << >>
                    /\ m_RemoteSessions'[addr].selectedIntro =
                           m_RemoteSessions[addr].selectedIntro
      ]_vars

-----------------------------------------------------------------------------
(* Prefetching *)

\* C32: the alignment callback PathAlignJob::HandleResult is invoked at most
\* once per remote service: Endpoint::Tick does not invoke it with the context
\* of a remote that has a RemoteSession already, neither for a prefetch
\* address nor for an introset in the cached result of a prefetch tag
C32_AlignsOnce ==
    [][ ev'.op = "Tick" =>
            \A k \in DOMAIN ev'.hooks :
                ev'.hooks[k].hook = AlignHook =>
                    ev'.hooks[k].ctx \notin DOMAIN m_RemoteSessions
      ]_vars

====
